---- MODULE Spec2Model ----
(***************************************************************************)
(* A model of the tracing core of myrust: the radix-32 identifier codec    *)
(* (util/radix32.rs), the identifier generator (util/id_gen.rs), the       *)
(* CloudNativeLayer span hooks with the TRACE_ID_MAP lookup table          *)
(* (tracing.rs) and the HTTP middlewares that carry a trace id over the    *)
(* X-Trace-Id header (http/client.rs, http/server/tracer.rs,               *)
(* http/tracer.rs).                                                        *)
(*                                                                         *)
(* A u128 is the set of the positions of its 1 bits (a subset of 0..127),  *)
(* so shifts, masks and ors keep the full 128-bit width. A text is the     *)
(* sequence of its bytes. Option<T> is <<>> (None) or <<v>> (Some(v)).     *)
(***************************************************************************)
EXTENDS Integers, Sequences, FiniteSets, TLC

VARIABLES
    \* codec harness: the value handed to the encoder, the text handed to
    \* the decoder, the decoder's result, and the harness position
    cin, ctext, cout, cphase,
    \* util/id_gen.rs: GENERATOR (the struct behind the mutex), the mutex
    \* holder, each caller's position and local id, the ids returned so far
    generator, glock, gpc, gret, returned,
    \* the wall clock (SystemTime), in nanoseconds since the epoch
    wall,
    \* tracing.rs: the registry's open spans with their Storage, the spans
    \* that were closed (as they were when on_close ran), each thread's
    \* stack of entered spans, TRACE_ID_MAP, the monotonic clock (Instant),
    \* the lines printed, the number of spans created so far
    spans, closed, stack, TRACE_ID_MAP, instant, stdout, nspans,
    \* requests in flight between an outbound and an inbound middleware
    wire,
    \* tracing.rs: the holder of TRACE_ID_MAP's mutex, and each task that
    \* calls insert_trace_id, get_trace_id and remove_trace_id on its own
    \* handle: its position in the call, the call, and what it returned
    tlock, ttask,
    \* the future a server middleware returned for a request, if there is
    \* one: http/tracer.rs TraceFuture (axum), http/server/tracer.rs
    \* TracerFuture (actix), and the VerifierFuture of http/jwt.rs and
    \* http/server/jwt.rs
    tfut, afut, vfut

codecVars == <<cin, ctext, cout, cphase>>
genVars == <<generator, glock, gpc, gret, returned>>
layerVars == <<spans, closed, stack, TRACE_ID_MAP, instant, stdout, nspans>>
tableVars == <<tlock, ttask>>
futVars == <<tfut, afut, vfut>>
vars == <<cin, ctext, cout, cphase, generator, glock, gpc, gret, returned, wall,
          spans, closed, stack, TRACE_ID_MAP, instant, stdout, nspans, wire,
          tlock, ttask, tfut, afut, vfut>>

---------------------------------------------------------------------------
\* Bounds of the model

\* how many 1 bits an encoder input drawn in CodecInit may have
MaxBitsSet == 3
\* the longest decoder input enumerated byte by byte in CodecInit
MaxTextLen == 2
\* concurrent callers of gen_id() and the calls they make in all
NumCallers == 2
MaxCalls == 4
\* the wall clock stays within 1..MaxClock while gen_id() is called alone
MaxClock == 3
\* spans created in one run of the layer
MaxSpans == 2
\* the last tick of the monotonic clock (Instant)
MaxTime == 1
\* how many entries a thread's stack of entered spans may hold
MaxDepth == 2
\* spans created in a run that follows the busy-time accounting
MaxTimed == 1
\* gen_id() calls of code other than the layer, in a run that follows the ids
MaxIdCalls == 1
\* events emitted in a run that follows the event lines
MaxEvents == 1
\* spans recorded to in a run that follows the close records
MaxRecorded == 1
\* tasks calling the table's functions at once, and calls of each task
NumTasks == 2
MaxOps == 2
\* the busy_time up to which exits without an enter are followed
MaxBusy == 3

---------------------------------------------------------------------------
\* Option<T>

None == <<>>
Some(v) == <<v>>
Unwrap(o) == o[1]

---------------------------------------------------------------------------
\* u128 arithmetic on sets of bit positions

U128_BITS == 128
Bit == 0..(U128_BITS - 1)

Pow2(k) == 2 ^ k

\* n << k on a u128: the bits shifted past bit 127 are lost
Shl(n, k) == {i + k : i \in {j \in n : j + k < U128_BITS}}
\* n >> k
Shr(n, k) == {i - k : i \in {j \in n : j >= k}}
\* the number a small u128 stands for (as u8, as u64 of a value that fits)
RECURSIVE ToNat(_)
ToNat(n) == IF n = {} THEN 0
            ELSE LET i == CHOOSE j \in n : TRUE IN Pow2(i) + ToNat(n \ {i})
\* a small number as a u128
FromNat(k) == {i \in 0..30 : (k \div Pow2(i)) % 2 = 1}
U128_MAX == Bit

---------------------------------------------------------------------------
\* util/radix32.rs

\* const MASK: u128 = (1 << 5) - 1
MASK == {0, 1, 2, 3, 4}
RADIX_SHIFT == 5
RADIX_BUF_LEN == 26
BYTE_0 == 48
BYTE_9 == 57
BYTE_a == 97
BYTE_z == 122

\* a faulty digit, its letters one place off, which the round trip must
\* tell from the encoder's
Radix32DigitOff(d) == IF d < 10 THEN BYTE_0 + d ELSE BYTE_a + d - 9
\* one digit of the encoder: the match on (n & MASK) as u8
Radix32Digit(d) == IF d < 10 THEN BYTE_0 + d ELSE BYTE_a + d - 10

Max(S) == CHOOSE x \in S : \A y \in S : y <= x

\* a faulty buffer, least-significant group first, which the group order
\* of the encoding must tell from the encoder's
Radix32BufReversed(n) ==
    [i \in 1..RADIX_BUF_LEN |->
        Radix32Digit(ToNat(Shr(n, RADIX_SHIFT * (i - 1)) \cap MASK))]
\* impl Display for Radix32. The loop `for i in (0..26).rev()` meets, at
\* index i, the input shifted right 25 - i times by 5 and writes the digit
\* of its low five bits to buf[i] (buf is indexed from 1 here).
Radix32Buf(n) ==
    [i \in 1..RADIX_BUF_LEN |->
        Radix32Digit(ToNat(Shr(n, RADIX_SHIFT * (RADIX_BUF_LEN - i)) \cap MASK))]
\* a faulty index, the loop never breaking, which the length of the
\* encoding must tell from the encoder's
Radix32IndexNoBreak(n) == 0
\* After the digit at i the loop shifts once more and breaks with index = i
\* if that leaves 0. The shifted value is 0 at i = 0 and, being 0 at i, at
\* every smaller i, so the first such i the descending loop meets is their
\* number less one.
Radix32Index(n) ==
    Cardinality({i \in 0..(RADIX_BUF_LEN - 1) :
                    Shr(n, RADIX_SHIFT * (RADIX_BUF_LEN - i)) = {}}) - 1
\* f.write_str(&buf[index..])
Radix32Fmt(n) == SubSeq(Radix32Buf(n), Radix32Index(n) + 1, RADIX_BUF_LEN)

\* the match on one byte of from_radix_32: the value or-ed into n, or None
\* for the arm `_ => return None`
FromRadix32Byte(c) ==
    IF c >= BYTE_0 /\ c <= BYTE_9 THEN Some(FromNat(c - BYTE_0))
    ELSE IF c >= BYTE_a /\ c <= BYTE_z THEN Some(FromNat(c - BYTE_a + 10))
    ELSE None

\* from_radix_32. The loop over s.as_bytes() shifts n left by 5 (bits past
\* bit 127 are lost) and ors the byte's value in, so the byte at position
\* k ends up shifted left by 5 for each byte after it; the first byte
\* outside the two ranges returns None.
from_radix_32(s) ==
    IF ~(Len(s) >= 1 /\ Len(s) <= RADIX_BUF_LEN) THEN None
    ELSE IF \E k \in 1..Len(s) : FromRadix32Byte(s[k]) = None THEN None
    ELSE Some(UNION {Shl(Unwrap(FromRadix32Byte(s[k])), RADIX_SHIFT * (Len(s) - k)) :
                        k \in 1..Len(s)})

---------------------------------------------------------------------------
\* The codec harness: inputs drawn in CodecInit, the codec applied by the
\* actions.

\* bit positions the encoder inputs are built from: both ends of the
\* word, the digit boundaries, the generator's field boundaries
SamplePos == {0, 1, 4, 5, 9, 10, 47, 48, 63, 64, 124, 125, 127}
SampleN == {n \in SUBSET SamplePos : Cardinality(n) <= MaxBitsSet} \cup {U128_MAX}

\* bytes the decoder inputs are built from:
\*   ! / 0 7 8 9 : A V ` a f v w z {
SampleBytes == {33, 47, 48, 55, 56, 57, 58, 65, 86, 96, 97, 102, 118, 119, 122, 123}
RECURSIVE TextsUpTo(_)
TextsUpTo(k) ==
    IF k = 0 THEN {<<>>}
    ELSE LET shorter == TextsUpTo(k - 1)
         IN shorter \cup {Append(s, b) : s \in {t \in shorter : Len(t) = k - 1}, b \in SampleBytes}
\* texts around the length limit: one byte, then copies of another
LongText(b1, b2, len) == [k \in 1..len |-> IF k = 1 THEN b1 ELSE b2]
SampleTexts ==
    TextsUpTo(MaxTextLen)
    \cup {LongText(b1, b2, len) : b1 \in SampleBytes, b2 \in {48, 118}, len \in {25, 26, 27, 28}}

\* the empty BTreeMap / HashMap
EmptyMap == [k \in {} |-> 0]

\* the variables of the layer, unused by the harness
\* no task is calling the table's functions
TableIdle == tlock = 0 /\ ttask = <<>>
\* no request is being served
FutIdle == tfut = None /\ afut = None /\ vfut = None

LayerIdle ==
    /\ spans = EmptyMap /\ closed = EmptyMap /\ stack = <<>> /\ TRACE_ID_MAP = EmptyMap
    /\ instant = 0 /\ stdout = <<>> /\ nspans = 0
    /\ wire = {}
    /\ TableIdle
    /\ FutIdle

CodecInitRest ==
    /\ generator = [mac |-> {}, counter |-> 0, last_time |-> 0]
    /\ glock = 0 /\ gpc = <<>> /\ gret = <<>> /\ returned = <<>> /\ wall = 1
    /\ LayerIdle

CodecInit ==
    /\ \/ cphase = "number" /\ cin \in SampleN /\ ctext = <<>>
       \/ cphase = "text" /\ cin = {} /\ ctext \in SampleTexts
    /\ cout = None
    /\ CodecInitRest

\* format!("{}", radix_32(n))
CodecEncode ==
    /\ cphase = "number"
    /\ ctext' = Radix32Fmt(cin)
    /\ cphase' = "encoded"
    /\ UNCHANGED <<cin, cout, genVars, wall, layerVars, wire, tableVars, futVars>>

\* from_radix_32(s), on an encoder's output or on a drawn text
CodecDecode ==
    /\ cphase \in {"encoded", "text"}
    /\ cout' = from_radix_32(ctext)
    /\ cphase' = IF cphase = "encoded" THEN "roundtrip" ELSE "decoded"
    /\ UNCHANGED <<cin, ctext, genVars, wall, layerVars, wire, tableVars, futVars>>

CodecNext == CodecEncode \/ CodecDecode

SpecCodec == CodecInit /\ [][CodecNext]_vars

\* C1: codec round trip. Decoding the text the encoder produced for n
\* with from_radix_32 yields Some(n), for every encoder input n.
C1_RoundTrip == cphase = "roundtrip" => cout = Some(cin)
\* the round trip of a value with bit 127 set (a 26-character text) and
\* of one with several digits
C1_Witness ==
    /\ cphase = "roundtrip"
    /\ 127 \in cin /\ 5 \in cin
    /\ Len(ctext) = RADIX_BUF_LEN
    /\ cout = Some(cin)

\* the 32 symbols 0123456789abcdefghijklmnopqrstuv
Alphabet == (BYTE_0..BYTE_9) \cup (BYTE_a..(BYTE_a + 21))
\* C10: decode rejects garbage. from_radix_32 returns None for the empty
\* text, for every text longer than 26 bytes and for every text holding a
\* byte outside the 32-symbol alphabet.
C10_DecodeRejectsGarbage ==
    (/\ cphase = "decoded"
     /\ \/ Len(ctext) = 0
        \/ Len(ctext) > RADIX_BUF_LEN
        \/ \E k \in 1..Len(ctext) : ctext[k] \notin Alphabet)
    => cout = None


\* the value of a symbol of the alphabet
SymbolValue(c) == IF c <= BYTE_9 THEN c - BYTE_0 ELSE c - BYTE_a + 10
\* C11: a text of alphabet symbols whose base-32 value does not fit in 128
\* bits (26 symbols, the first of value 8 or more) is a decode error:
\* from_radix_32 returns None, not a truncated number.
C11_OutOfRange ==
    (/\ cphase = "decoded"
     /\ Len(ctext) = RADIX_BUF_LEN
     /\ \A k \in 1..Len(ctext) : ctext[k] \in Alphabet
     /\ SymbolValue(ctext[1]) >= 8)
    => cout = None

\* C12: codec bounds. encode(0) is the one-character text "0"; every
\* encoded text has between 1 and 26 symbols, all of the alphabet.
C12_CodecBounds ==
    cphase = "encoded"
        => /\ Len(ctext) >= 1 /\ Len(ctext) <= RADIX_BUF_LEN
           /\ \A k \in 1..Len(ctext) : ctext[k] \in Alphabet
           /\ cin = {} => ctext = <<BYTE_0>>
\* zero was encoded, to "0"
C12_Witness == cphase = "encoded" /\ cin = {} /\ ctext = <<BYTE_0>>

\* the 5-bit group g of n (group 0 the least significant), as a number
GroupOf(n, g) == ToNat({b \in 0..(RADIX_SHIFT - 1) : b + RADIX_SHIFT * g \in n})
\* the symbol of the alphabet for the digit d
SymbolOf(d) == IF d < 10 THEN BYTE_0 + d ELSE BYTE_a + (d - 10)
\* the number whose 5-bit groups, most significant first, are the values
\* of the symbols of text
ValueOf(text) ==
    UNION {{b + RADIX_SHIFT * (Len(text) - k) : b \in FromNat(SymbolValue(text[k]))} :
               k \in 1..Len(text)}
\* C13: for n > 0 the encoded text is the sequence of the 5-bit groups of
\* n from the most significant non-zero group down, each as its symbol,
\* with no leading '0'; the text determines n, so distinct values have
\* distinct texts.
C13_Canonical ==
    (cphase = "encoded" /\ cin # {})
        => /\ Len(ctext) = (Max(cin) \div RADIX_SHIFT) + 1
           /\ \A k \in 1..Len(ctext) : ctext[k] = SymbolOf(GroupOf(cin, Len(ctext) - k))
           /\ ctext[1] # BYTE_0
           /\ ValueOf(ctext) = cin
\* 2^64 + 2^47 + 1 was encoded, to "g004000000001": zero groups inside
\* the text are kept
C13_Witness ==
    /\ cphase = "encoded"
    /\ cin = {0, 47, 64}
    /\ ctext = <<103, 48, 48, 52, 48, 48, 48, 48, 48, 48, 48, 48, 49>>

---------------------------------------------------------------------------
\* util/id_gen.rs

MAC_ADDRESS_BITS == 48
COUNTER_BITS == 16
TIME_SHIFT == 64

\* Generator::new(): mac is the six bytes of the host's MAC address, a
\* value below 2^48; counter and last_time start at 0
MacChoices == {{0, 47}, {1, 8, 40}}
GeneratorNew(m) == [mac |-> m, counter |-> 0, last_time |-> 0]

\* a faulty body that shifts the counter one bit short, into the MAC
\* address, which the layout of the id must tell from gen_id's
gen_id_overlap(g, now) ==
    LET g2 == IF g.last_time < now
                  THEN [g EXCEPT !.last_time = now, !.counter = 0]
                  ELSE [g EXCEPT !.counter = (g.counter + 1) % Pow2(COUNTER_BITS)]
    IN [gen |-> g2,
        id |-> Shl(FromNat(now), TIME_SHIFT)
                 \cup Shl(FromNat(g2.counter), MAC_ADDRESS_BITS - 1)
                 \cup g2.mac]
\* a faulty body that resets the counter on a clock reading equal to
\* last_time as well, which the handling of a timestamp tie must tell from
\* gen_id's
gen_id_reset_on_tie(g, now) ==
    LET g2 == IF g.last_time <= now
                  THEN [g EXCEPT !.last_time = now, !.counter = 0]
                  ELSE [g EXCEPT !.counter = (g.counter + 1) % Pow2(COUNTER_BITS)]
    IN [gen |-> g2,
        id |-> Shl(FromNat(now), TIME_SHIFT)
                 \cup Shl(FromNat(g2.counter), MAC_ADDRESS_BITS)
                 \cup g2.mac]
\* the body of gen_id() between taking and dropping the mutex guard, for a
\* clock reading `now`: the generator afterwards and the id returned
gen_id(g, now) ==
    LET g2 == IF g.last_time < now
                  THEN [g EXCEPT !.last_time = now, !.counter = 0]
                  ELSE [g EXCEPT !.counter = (g.counter + 1) % Pow2(COUNTER_BITS)]
    IN [gen |-> g2,
        id |-> Shl(FromNat(now), TIME_SHIFT)
                 \cup Shl(FromNat(g2.counter), MAC_ADDRESS_BITS)
                 \cup g2.mac]

Callers == 1..NumCallers

GenInit ==
    /\ generator \in {GeneratorNew(m) : m \in MacChoices}
    /\ glock = 0
    /\ gpc = [c \in Callers |-> "idle"]
    /\ gret = [c \in Callers |-> {}]
    /\ returned = <<>>
    /\ wall = 1
    /\ cin = {} /\ ctext = <<>> /\ cout = None /\ cphase = "off"
    /\ LayerIdle

CallsStarted == Len(returned) + Cardinality({c \in Callers : gpc[c] # "idle"})

\* GENERATOR.lock().unwrap(): the caller waits until the mutex is free
GenLock(c) ==
    /\ gpc[c] = "idle"
    /\ glock = 0
    /\ CallsStarted < MaxCalls
    /\ glock' = c
    /\ gpc' = [gpc EXCEPT ![c] = "locked"]
    /\ UNCHANGED <<generator, gret, returned, wall, codecVars, layerVars, wire, tableVars, futVars>>

\* the body, run by the holder of the mutex: SystemTime::now() reads the
\* wall clock
GenCompute(c) ==
    /\ gpc[c] = "locked"
    /\ glock = c
    /\ LET r == gen_id(generator, wall)
       IN /\ generator' = r.gen
          /\ gret' = [gret EXCEPT ![c] = r.id]
    /\ gpc' = [gpc EXCEPT ![c] = "computed"]
    /\ UNCHANGED <<glock, returned, wall, codecVars, layerVars, wire, tableVars, futVars>>

\* the guard is dropped as the call returns its id
GenReturn(c) ==
    /\ gpc[c] = "computed"
    /\ glock' = 0
    /\ returned' = Append(returned, gret[c])
    /\ gpc' = [gpc EXCEPT ![c] = "idle"]
    /\ gret' = [gret EXCEPT ![c] = {}]
    /\ UNCHANGED <<generator, wall, codecVars, layerVars, wire, tableVars, futVars>>

\* time passes: the wall clock moves on by a nanosecond
ClockAdvance ==
    /\ wall < MaxClock
    /\ wall' = wall + 1
    /\ UNCHANGED <<genVars, codecVars, layerVars, wire, tableVars, futVars>>

\* the wall clock is set back (an NTP step, an operator's date change):
\* SystemTime is not monotonic, a reading may be smaller than an earlier
\* one
ClockStepBack ==
    /\ \E w \in 1..(wall - 1) : wall' = w
    /\ UNCHANGED <<genVars, codecVars, layerVars, wire, tableVars, futVars>>

GenNext ==
    \/ \E c \in Callers : GenLock(c) \/ GenCompute(c) \/ GenReturn(c)
    \/ ClockAdvance
    \/ ClockStepBack

SpecGen == GenInit /\ [][GenNext]_vars

\* C2: generator uniqueness. Whatever the callers and the interleaving of
\* their calls, no two gen_id() calls return the same value.
C2_GenUnique ==
    \A i, j \in 1..Len(returned) : i # j => returned[i] # returned[j]

---------------------------------------------------------------------------
\* tracing.rs: TRACE_ID_MAP, a HashMap<u64, u128> behind a mutex. Each of
\* the three functions holds the lock for its one map operation.

MapPut(m, k, v) == [x \in DOMAIN m \cup {k} |-> IF x = k THEN v ELSE m[x]]
MapRemove(m, k) == [x \in DOMAIN m \ {k} |-> m[x]]

\* a faulty insert that starts the table afresh, which the frame of a
\* span's creation must tell from insert_trace_id
insert_trace_id_afresh(id, trace_id) == MapPut(EmptyMap, id, trace_id)
insert_trace_id(id, trace_id) == MapPut(TRACE_ID_MAP, id, trace_id)
remove_trace_id(id) == MapRemove(TRACE_ID_MAP, id)
MapGet(m, k) == IF k \in DOMAIN m THEN Some(m[k]) ELSE None
get_trace_id(id) == MapGet(TRACE_ID_MAP, id)

---------------------------------------------------------------------------
\* tracing.rs: JsonVisitor(&mut fields, u128). A recorded value is
\* [name, kind, val], kind naming the Visit method tracing calls for it.

JsonVisitor(fields) == [fields |-> fields, tid |-> {}]

\* record_u128: the field named trace_id goes to the visitor's second
\* slot, any other is stored as the string value.to_string()
record_u128(v, name, value) ==
    IF name = "trace_id" THEN [v EXCEPT !.tid = value]
    ELSE [v EXCEPT !.fields = MapPut(@, name, [json |-> "string", val |-> value])]

\* record_f64, record_i64, record_u64, record_bool, record_str and
\* record_debug insert the value under the field's name
record_value(v, name, kind, value) ==
    [v EXCEPT !.fields = MapPut(@, name, [json |-> kind, val |-> value])]

\* attrs.record(&mut visitor) / values.record(&mut visitor): every value
\* is visited in order
RECURSIVE Visit(_, _)
Visit(v, values) ==
    IF values = <<>> THEN v
    ELSE LET f == Head(values)
         IN Visit(IF f.kind = "u128" THEN record_u128(v, f.name, f.val)
                  ELSE record_value(v, f.name, f.kind, f.val),
                  Tail(values))

---------------------------------------------------------------------------
\* The registry of tracing-subscriber as the layer sees it: each thread's
\* stack of entered spans, whose entries are [id, duplicate].

\* one worker thread: the hooks of a span entered by two threads at once
\* arrive as those of a span one thread entered twice
Threads == {1}

\* SpanStack::push: an id already on the stack is pushed as a duplicate
SpanStackPush(stk, id) ==
    Append(stk, [id |-> id, duplicate |-> \E k \in 1..Len(stk) : stk[k].id = id])
\* SpanStack::current: the last entry that is not a duplicate
SpanStackCurrent(stk) ==
    LET live == {k \in 1..Len(stk) : ~stk[k].duplicate}
    IN IF live = {} THEN None ELSE Some(stk[Max(live)].id)
OnStack(id) == \E t \in Threads : \E k \in 1..Len(stack[t]) : stack[t][k].id = id
Children(id) == {c \in DOMAIN spans : spans[c].parent = Some(id)}

---------------------------------------------------------------------------
\* tracing.rs: CloudNativeLayer

\* a faulty match that seeds a child like a root, which trace
\* inheritance must tell from on_new_span's
TraceIdsNoInherit(tid, parent, fresh) ==
    [trace_id |-> IF tid # {} THEN tid ELSE fresh,
     parent_id |-> IF parent = None THEN None ELSE Some(Unwrap(parent).span_id)]
\* a faulty derivation, an explicit trace id overriding the parent's,
\* which the precedence of inheritance must tell from the layer's
TraceIdsExplicitWins(tid, parent, fresh) ==
    IF parent = None
        THEN [trace_id |-> IF tid # {} THEN tid ELSE fresh, parent_id |-> None]
        ELSE [trace_id |-> IF tid # {} THEN tid ELSE Unwrap(parent).trace_id,
              parent_id |-> Some(Unwrap(parent).span_id)]
\* a faulty derivation, the parent's trace id taken as parent id, which
\* the parent linkage must tell from the layer's
TraceIdsParentTrace(tid, parent, fresh) ==
    IF parent = None
        THEN [trace_id |-> IF tid # {} THEN tid ELSE fresh, parent_id |-> None]
        ELSE [trace_id |-> Unwrap(parent).trace_id,
              parent_id |-> Some(Unwrap(parent).trace_id)]
\* on_new_span, the match on parent_span: the trace id and the parent id
\* of the new span. tid is the visitor's second slot, parent the parent's
\* Storage if the span has one, fresh the id gen_id() returns in the arm
\* that calls it.
TraceIds(tid, parent, fresh) ==
    IF parent = None
        THEN [trace_id |-> IF tid # {} THEN tid ELSE fresh, parent_id |-> None]
        ELSE [trace_id |-> Unwrap(parent).trace_id,
              parent_id |-> Some(Unwrap(parent).span_id)]

\* on_new_span(attrs, id, ctx): parent is span_scope's second span. The
\* Storage it inserts, the generator and the table afterwards; gen_id()
\* is called for the trace id in the arm that needs one, then for the
\* span id.
on_new_span(attrs, id, parent) ==
    LET visitor == Visit(JsonVisitor(EmptyMap), attrs)
        calls == parent = None /\ visitor.tid = {}
        g1 == gen_id(generator, wall)
        ids == TraceIds(visitor.tid,
                        IF parent = None THEN None ELSE Some(spans[Unwrap(parent)].storage),
                        g1.id)
        g2 == gen_id(IF calls THEN g1.gen ELSE generator, wall)
    IN [storage |-> [trace_id |-> ids.trace_id,
                     span_id |-> g2.id,
                     parent_id |-> ids.parent_id,
                     created_at |-> instant,
                     enter_at |-> None,
                     busy_time |-> 0,
                     fields |-> visitor.fields],
        gen |-> g2.gen,
        table |-> insert_trace_id(id, ids.trace_id)]

\* a faulty on_enter that keeps an enter_at already set, which the
\* accounting of a span's second pair must tell from on_enter
on_enter_keep(storage) ==
    IF storage.enter_at = None THEN [storage EXCEPT !.enter_at = Some(instant)]
    ELSE storage
\* on_enter: enter_at = Some(Instant::now())
on_enter(storage) == [storage EXCEPT !.enter_at = Some(instant)]

\* on_exit: busy_time += enter_at.unwrap().elapsed(); enter_at is kept
on_exit(storage) ==
    [storage EXCEPT !.busy_time = @ + (instant - Unwrap(storage.enter_at))]

\* on_record: the values are visited into the span's own field map; the
\* visitor's second slot is dropped
on_record(storage, values) ==
    [storage EXCEPT !.fields = Visit(JsonVisitor(@), values).fields]

\* a faulty on_event, taking the ids of the span's parent when it has
\* one, which the correlation of events must tell from the layer's
on_event_parent(values, span) ==
    LET s == spans[Unwrap(span)]
        from == IF s.parent = None THEN s.storage
                ELSE spans[Unwrap(s.parent)].storage
    IN [type |-> "event",
        fields |-> Visit(JsonVisitor(EmptyMap), values).fields,
        trace_id |-> IF span = None THEN None ELSE Some(Radix32Fmt(from.trace_id)),
        span_id |-> IF span = None THEN None ELSE Some(Radix32Fmt(from.span_id))]
\* on_event(event, ctx): the object it prints. span is ctx.event_span(event),
\* the registry's current span of the thread; its Storage gives trace_id
\* and span_id, which are left out when there is no such span.
on_event(values, span) ==
    [type |-> "event",
     fields |-> Visit(JsonVisitor(EmptyMap), values).fields,
     trace_id |-> IF span = None THEN None
                  ELSE Some(Radix32Fmt(spans[Unwrap(span)].storage.trace_id)),
     span_id |-> IF span = None THEN None
                 ELSE Some(Radix32Fmt(spans[Unwrap(span)].storage.span_id))]

\* on_close: created_at.elapsed() - busy_time panics when busy_time is the
\* larger ("overflow when subtracting durations"), before anything is
\* printed or removed
ClosePanics(storage) == instant - storage.created_at < storage.busy_time

\* a faulty record, printing parent_id for every span ("0" for a span
\* without one), which the linkage of the close record must tell from
\* on_close's
CloseRecordAlwaysParent(id, storage) ==
    [type |-> "span",
     of |-> id,
     fields |-> storage.fields,
     trace_id |-> Radix32Fmt(storage.trace_id),
     span_id |-> Radix32Fmt(storage.span_id),
     parent_id |-> IF storage.parent_id = None THEN Some(Radix32Fmt({}))
                   ELSE Some(Radix32Fmt(Unwrap(storage.parent_id))),
     busy_time |-> storage.busy_time,
     idle_time |-> (instant - storage.created_at) - storage.busy_time]
\* the object on_close prints; `of` is not printed, it names the span the
\* line is about
CloseRecord(id, storage) ==
    [type |-> "span",
     of |-> id,
     fields |-> storage.fields,
     trace_id |-> Radix32Fmt(storage.trace_id),
     span_id |-> Radix32Fmt(storage.span_id),
     parent_id |-> IF storage.parent_id = None THEN None
                   ELSE Some(Radix32Fmt(Unwrap(storage.parent_id))),
     busy_time |-> storage.busy_time,
     idle_time |-> (instant - storage.created_at) - storage.busy_time]

\* on_close(id, ctx): the lines printed and the table afterwards
on_close(id, storage) ==
    IF ClosePanics(storage)
        THEN [out |-> stdout, table |-> TRACE_ID_MAP]
        ELSE [out |-> Append(stdout, CloseRecord(id, storage)),
              table |-> remove_trace_id(id)]

---------------------------------------------------------------------------
\* The hooks as the runtime fires them

\* the u128 value recorded under the name trace_id, if attrs hold one
ExplicitOf(attrs) ==
    LET hits == {k \in 1..Len(attrs) : attrs[k].name = "trace_id" /\ attrs[k].kind = "u128"}
    IN IF hits = {} THEN None ELSE Some(attrs[Max(hits)].val)

\* What the enter/exit hooks of a span amounted to, kept beside the span
\* and unseen by the layer: the time of the latest enter (since) and the
\* sum, over the exits so far, of exit time - time of the latest enter
\* (sum). For a span whose enter/exit pairs lie apart from one another sum
\* is the sum over its pairs of exit time - enter time.
NoPairs == [sum |-> 0, since |-> 0]
PairOpened(p) == [p EXCEPT !.since = instant]
PairClosed(p) == [p EXCEPT !.sum = @ + (instant - p.since)]

\* The values record() calls supplied for a span so far, kept beside the
\* span and unseen by the layer: for each field name the value supplied
\* last.
Supplied(m, values) ==
    LET names == {values[i].name : i \in 1..Len(values)}
    IN [k \in DOMAIN m \cup names |->
           IF k \in names
               THEN values[Max({i \in 1..Len(values) : values[i].name = k})]
               ELSE m[k]]

\* a span is created on thread t: the registry gives it the next id and
\* the thread's current span as parent, then on_new_span runs. sent is,
\* for the span of an inbound request, the trace id its sender stamped.
CreateSpan(t, attrs, sent) ==
    /\ nspans < MaxSpans
    /\ LET id == nspans + 1
           parent == SpanStackCurrent(stack[t])
           r == on_new_span(attrs, id, parent)
       IN /\ spans' = MapPut(spans, id, [parent |-> parent,
                                         storage |-> r.storage,
                                         explicit |-> ExplicitOf(attrs),
                                         sent |-> sent,
                                         pairs |-> NoPairs,
                                         supplied |-> EmptyMap])
          /\ generator' = r.gen
          /\ TRACE_ID_MAP' = r.table
          /\ nspans' = id

\* trace ids a caller records explicitly on a new span: 0 and 32 ("10")
ExplicitIds == {{}, {5}}
LocalAttrs ==
    {<<>>} \cup {<<[name |-> "trace_id", kind |-> "u128", val |-> T]>> : T \in ExplicitIds}

\* a span!(..) of the application
NewSpan(t, attrs) ==
    /\ CreateSpan(t, attrs, None)
    /\ UNCHANGED <<closed, stack, instant, stdout, wire, codecVars,
                   glock, gpc, gret, returned, wall, tableVars, futVars>>

\* span.enter() / a poll of an Instrumented future: the registry pushes
\* the id on the thread's stack, then on_enter runs
Enter(t, id) ==
    /\ id \in DOMAIN spans
    /\ Len(stack[t]) < MaxDepth
    /\ stack' = [stack EXCEPT ![t] = SpanStackPush(@, id)]
    /\ spans' = [spans EXCEPT ![id].storage = on_enter(@),
                              ![id].pairs = PairOpened(@)]
    /\ UNCHANGED <<closed, TRACE_ID_MAP, instant, stdout, nspans, wire,
                   codecVars, genVars, wall, tableVars, futVars>>

\* the guard entered last is dropped: the registry pops the id, then
\* on_exit runs
Exit(t) ==
    /\ stack[t] # <<>>
    /\ LET id == stack[t][Len(stack[t])].id
       IN spans' = [spans EXCEPT ![id].storage = on_exit(@),
                                 ![id].pairs = PairClosed(@)]
    /\ stack' = [stack EXCEPT ![t] = SubSeq(@, 1, Len(@) - 1)]
    /\ UNCHANGED <<closed, TRACE_ID_MAP, instant, stdout, nspans, wire,
                   codecVars, genVars, wall, tableVars, futVars>>

\* time passes: the monotonic clock and the wall clock move on together
\* (the wall clock is not adjusted while the layer runs)
Tick ==
    /\ instant < MaxTime
    /\ instant' = instant + 1
    /\ wall' = wall + 1
    /\ UNCHANGED <<spans, closed, stack, TRACE_ID_MAP, stdout, nspans, wire,
                   codecVars, genVars, tableVars, futVars>>

\* a closed span as `closed` keeps it: the span as it was, and the time
\* at which on_close ran
Archived(span) ==
    [f \in DOMAIN span \cup {"closed_at"} |->
        IF f = "closed_at" THEN instant ELSE span[f]]

\* the last handle of a span is dropped (its task finished, or was
\* aborted and its future dropped): the registry closes a span that no
\* thread has entered and no open child refers to, and on_close runs. The
\* registry forgets the span even when on_close panics (its CloseGuard
\* clears the slot on unwinding).
Close(id) ==
    /\ id \in DOMAIN spans
    /\ ~OnStack(id)
    /\ Children(id) = {}
    /\ LET r == on_close(id, spans[id].storage)
       IN /\ stdout' = r.out
          /\ TRACE_ID_MAP' = r.table
    /\ spans' = MapRemove(spans, id)
    /\ closed' = MapPut(closed, id, Archived(spans[id]))
    /\ UNCHANGED <<stack, instant, nspans, wire, codecVars, genVars, wall, tableVars, futVars>>

\* the lines on_event printed
EventLines == {k \in 1..Len(stdout) : stdout[k].type = "event"}
\* the values of an event: trace!(req_headers = ..) of the middlewares
EventValues == {<<[name |-> "req_headers", kind |-> "str", val |-> "{}"]>>}
\* an event is emitted on thread t: on_event runs and prints its line
Event(t, values) ==
    /\ Cardinality(EventLines) < MaxEvents
    /\ stdout' = Append(stdout, on_event(values, SpanStackCurrent(stack[t])))
    /\ UNCHANGED <<spans, closed, stack, TRACE_ID_MAP, instant, nspans, wire,
                   codecVars, genVars, wall, tableVars, futVars>>

\* span.record("status", code), as the middlewares do once the response
\* is there: on_record runs with the value
RecordValues == {<<[name |-> "status", kind |-> "u64", val |-> 200]>>}
Record(id, values) ==
    /\ id \in DOMAIN spans
    /\ spans' = [spans EXCEPT ![id].storage = on_record(@, values),
                              ![id].supplied = Supplied(@, values)]
    /\ spans' # spans
    /\ UNCHANGED <<closed, stack, TRACE_ID_MAP, instant, stdout, nspans, wire,
                   codecVars, genVars, wall, tableVars, futVars>>

---------------------------------------------------------------------------
\* The HTTP middlewares. A request on the wire is [hdr, sent]: hdr is the
\* X-Trace-Id header value if the request has one, sent the trace id of the
\* span whose middleware stamped it (None for a request from elsewhere).

\* HeaderValue::to_str: the bytes as a &str when all are visible ASCII,
\* space or tab
ToStr(h) ==
    IF \A k \in 1..Len(h) : (h[k] >= 32 /\ h[k] < 127) \/ h[k] = 9 THEN Some(h) ELSE None

\* char::to_digit(16)
BYTE_A == 65
BYTE_F == 70
BYTE_f == 102
BYTE_PLUS == 43
HEX_SHIFT == 4
HexDigit(c) ==
    IF c >= BYTE_0 /\ c <= BYTE_9 THEN Some(FromNat(c - BYTE_0))
    ELSE IF c >= BYTE_a /\ c <= BYTE_f THEN Some(FromNat(c - BYTE_a + 10))
    ELSE IF c >= BYTE_A /\ c <= BYTE_F THEN Some(FromNat(c - BYTE_A + 10))
    ELSE None

\* u128::from_str_radix(s, 16).ok(): a leading '+' is dropped, every
\* other byte must be a hexadecimal digit, and a value that does not fit
\* 128 bits is an error
from_str_radix_16(s) ==
    LET digits == IF Len(s) >= 1 /\ s[1] = BYTE_PLUS THEN Tail(s) ELSE s
        n == Len(digits)
    IN IF n = 0 THEN None
       ELSE IF \E k \in 1..n : HexDigit(digits[k]) = None THEN None
       ELSE IF \E k \in 1..n : \E b \in Unwrap(HexDigit(digits[k])) :
                   b + HEX_SHIFT * (n - k) >= U128_BITS THEN None
       ELSE Some(UNION {Shl(Unwrap(HexDigit(digits[k])), HEX_SHIFT * (n - k)) : k \in 1..n})

\* uri = %req.uri(), method = %req.method(): recorded through record_debug;
\* status = Empty records nothing
RequestAttrs ==
    <<[name |-> "uri", kind |-> "debug", val |-> "/"],
      [name |-> "method", kind |-> "debug", val |-> "GET"]>>

\* trace_id = id when the header decoded, Empty otherwise
InboundAttrs(decoded) ==
    IF decoded = None THEN RequestAttrs
    ELSE <<[name |-> "trace_id", kind |-> "u128", val |-> Unwrap(decoded)]>> \o RequestAttrs

\* req.headers().get(TRACE_ID_HEADER).and_then(|v| v.to_str().ok())
HeaderStr(req) == IF req.hdr = None THEN None ELSE ToStr(Unwrap(req.hdr))

\* client.rs / reqwest.rs, Tracer::handle: the span is created, and when
\* get_trace_id finds its trace id the request goes out with the header
\* format!("{}", radix_32(trace_id))
Outbound(t) ==
    /\ CreateSpan(t, RequestAttrs, None)
    /\ LET trace_id == MapGet(TRACE_ID_MAP', nspans + 1)
       IN wire' = wire \cup
              {[hdr |-> IF trace_id = None THEN None ELSE Some(Radix32Fmt(Unwrap(trace_id))),
                sent |-> trace_id]}
    /\ UNCHANGED <<closed, stack, instant, stdout, codecVars,
                   glock, gpc, gret, returned, wall, tableVars, futVars>>

\* requests that reach a server from outside the traced services: without
\* the header, with the header "10", "!", "A" and one that is not ASCII
ExternalRequests ==
    {[hdr |-> h, sent |-> None] :
        h \in {None, Some(<<49, 48>>), Some(<<33>>), Some(<<BYTE_A>>), Some(<<200>>)}}

\* a request arrives at a server: one from the wire is taken off it
Receive(req) ==
    /\ req \in wire \cup ExternalRequests
    /\ wire' = wire \ {req}

\* server/tracer.rs, span_from_request (actix): the header is decoded with
\* from_radix_32
InboundActix(t, req) ==
    /\ Receive(req)
    /\ LET s == HeaderStr(req)
           id == IF s = None THEN None ELSE from_radix_32(Unwrap(s))
       IN CreateSpan(t, InboundAttrs(id), req.sent)
    /\ UNCHANGED <<closed, stack, instant, stdout, codecVars,
                   glock, gpc, gret, returned, wall, tableVars, futVars>>

\* tracer.rs, TracerService::call (axum): the header is decoded with
\* u128::from_str_radix(s, 16)
InboundAxum(t, req) ==
    /\ Receive(req)
    /\ LET s == HeaderStr(req)
           trace_id == IF s = None THEN None ELSE from_str_radix_16(Unwrap(s))
       IN CreateSpan(t, InboundAttrs(trace_id), req.sent)
    /\ UNCHANGED <<closed, stack, instant, stdout, codecVars,
                   glock, gpc, gret, returned, wall, tableVars, futVars>>

LayerInit ==
    /\ generator = GeneratorNew({0, 47})
    /\ glock = 0 /\ gpc = <<>> /\ gret = <<>> /\ returned = <<>>
    /\ wall = 1
    /\ cin = {} /\ ctext = <<>> /\ cout = None /\ cphase = "off"
    /\ spans = EmptyMap /\ closed = EmptyMap /\ TRACE_ID_MAP = EmptyMap
    /\ stack = [t \in Threads |-> <<>>]
    /\ instant = 0 /\ stdout = <<>> /\ nspans = 0
    /\ wire = {}
    /\ TableIdle
    /\ FutIdle

Next ==
    \/ \E t \in Threads : \E attrs \in LocalAttrs : NewSpan(t, attrs)
    \/ \E t \in Threads : \E id \in DOMAIN spans : Enter(t, id)
    \/ \E t \in Threads : Exit(t)
    \/ \E id \in DOMAIN spans : \E values \in RecordValues : Record(id, values)
    \/ Tick
    \/ \E id \in DOMAIN spans : Close(id)

Spec == LayerInit /\ [][Next]_vars

\* Every guard is dropped and every span handle is dropped: a task runs to
\* its end or is aborted, and either way its guards and handles go out of
\* scope. So a span that can be exited is exited, and a span that can be
\* closed again and again is closed.
FairSpec ==
    /\ Spec
    /\ \A t \in Threads : SF_vars(Exit(t))
    /\ \A id \in 1..MaxSpans : SF_vars(Close(id))

\* a span of the run that follows the busy-time accounting
NewTimedSpan(t, attrs) == nspans < MaxTimed /\ NewSpan(t, attrs)
\* a span that is not entered is entered: its enter/exit pairs lie apart
EnterApart(t, id) == ~OnStack(id) /\ Enter(t, id)

\* the layer with spans that are entered, each while it is not entered,
\* exited and recorded to while time passes
BusyNext ==
    \/ \E t \in Threads : \E attrs \in LocalAttrs : NewTimedSpan(t, attrs)
    \/ \E t \in Threads : \E id \in DOMAIN spans : EnterApart(t, id)
    \/ \E t \in Threads : Exit(t)
    \/ \E id \in DOMAIN spans : \E values \in RecordValues : Record(id, values)
    \/ Tick
    \/ \E id \in DOMAIN spans : Close(id)

SpecBusy == LayerInit /\ [][BusyNext]_vars

\* the services exchanging requests: spans are created by the application
\* and by the middlewares, entered, exited and closed
\* The layer in a process whose other code calls gen_id() too (it is a pub
\* fn of util::id_gen) and whose wall clock may be set back. A span is
\* created when the generator's mutex is free: on_new_span takes and
\* drops it within each of its gen_id() calls.
IdsInit ==
    /\ generator = GeneratorNew({0, 47})
    /\ glock = 0
    /\ gpc = [c \in Callers |-> "idle"]
    /\ gret = [c \in Callers |-> {}]
    /\ returned = <<>>
    /\ wall = 1
    /\ cin = {} /\ ctext = <<>> /\ cout = None /\ cphase = "off"
    /\ spans = EmptyMap /\ closed = EmptyMap /\ TRACE_ID_MAP = EmptyMap
    /\ stack = [t \in Threads |-> <<>>]
    /\ instant = 0 /\ stdout = <<>> /\ nspans = 0
    /\ wire = {}
    /\ TableIdle
    /\ FutIdle

IdsNewSpan(t, attrs) == glock = 0 /\ NewSpan(t, attrs)
\* a gen_id() call of the other code starts
IdsGenLock(c) == CallsStarted < MaxIdCalls /\ GenLock(c)

IdsNext ==
    \/ \E t \in Threads : \E attrs \in LocalAttrs : IdsNewSpan(t, attrs)
    \/ \E t \in Threads : \E id \in DOMAIN spans : Enter(t, id)
    \/ \E t \in Threads : Exit(t)
    \/ \E c \in Callers : IdsGenLock(c)
    \/ \E c \in Callers : GenCompute(c)
    \/ \E c \in Callers : GenReturn(c)
    \/ ClockAdvance
    \/ ClockStepBack

SpecIds == IdsInit /\ [][IdsNext]_vars

\* record() calls of an application: a status, another status, a trace
\* id as u128, and a status together with a trace id
RecordCalls ==
    RecordValues \cup
    {<<[name |-> "status", kind |-> "u64", val |-> 404]>>,
     <<[name |-> "trace_id", kind |-> "u128", val |-> {5}]>>,
     <<[name |-> "status", kind |-> "u64", val |-> 404],
       [name |-> "trace_id", kind |-> "u128", val |-> {5}]>>}

\* the layer with spans that are created, entered, exited and recorded to
RecordNext ==
    \/ \E t \in Threads : \E attrs \in LocalAttrs : NewSpan(t, attrs)
    \/ \E t \in Threads : \E id \in DOMAIN spans : Enter(t, id)
    \/ \E t \in Threads : Exit(t)
    \/ \E id \in DOMAIN spans : \E values \in RecordCalls : Record(id, values)

SpecRecord == LayerInit /\ [][RecordNext]_vars

\* attributes of a span!(..) with u128 fields: a trace id (0 or 32), a
\* u128 field of another name, both, or none
SeedAttrs ==
    LocalAttrs \cup
    {<<[name |-> "user", kind |-> "u128", val |-> {3}]>>,
     <<[name |-> "trace_id", kind |-> "u128", val |-> {5}],
       [name |-> "user", kind |-> "u128", val |-> {3}]>>}

\* the layer with spans created with such attributes, entered, exited and
\* closed
SeedNext ==
    \/ \E t \in Threads : \E attrs \in SeedAttrs : NewSpan(t, attrs)
    \/ \E t \in Threads : \E id \in DOMAIN spans : Enter(t, id)
    \/ \E t \in Threads : Exit(t)
    \/ \E id \in DOMAIN spans : Close(id)

SpecSeed == LayerInit /\ [][SeedNext]_vars

\* the layer with spans that are created, entered, exited and closed
\* while events are emitted
EventNext ==
    \/ \E t \in Threads : NewSpan(t, <<>>)
    \/ \E t \in Threads : \E id \in DOMAIN spans : Enter(t, id)
    \/ \E t \in Threads : Exit(t)
    \/ \E t \in Threads : \E values \in EventValues : Event(t, values)
    \/ \E id \in DOMAIN spans : Close(id)

SpecEvent == LayerInit /\ [][EventNext]_vars

\* the Storage of every span created so far, open or closed
Created ==
    [id \in DOMAIN spans \cup DOMAIN closed |->
        IF id \in DOMAIN spans THEN spans[id] ELSE closed[id]]

\* record() calls on a span between its creation and its close: a status
\* and a trace id as u128
LinkRecords ==
    RecordValues \cup {<<[name |-> "trace_id", kind |-> "u128", val |-> {5}]>>}

\* a record() call on a span of the run, which records to few spans
LinkRecord(id, values) ==
    /\ Cardinality({x \in DOMAIN Created : Created[x].supplied # EmptyMap}) < MaxRecorded
    /\ Record(id, values)

\* the layer with spans that are created, recorded to, entered, exited and
\* closed
LinkNext ==
    \/ \E t \in Threads : NewSpan(t, <<>>)
    \/ \E id \in DOMAIN spans : \E values \in LinkRecords : LinkRecord(id, values)
    \/ \E t \in Threads : \E id \in DOMAIN spans : Enter(t, id)
    \/ \E t \in Threads : Exit(t)
    \/ \E id \in DOMAIN spans : Close(id)

SpecLink == LayerInit /\ [][LinkNext]_vars

\* the layer with a span that is entered and exited while time passes and
\* events are emitted, and is closed
EmitNext ==
    \/ \E t \in Threads : \E attrs \in LocalAttrs : NewTimedSpan(t, attrs)
    \/ \E t \in Threads : \E id \in DOMAIN spans : Enter(t, id)
    \/ \E t \in Threads : Exit(t)
    \/ Tick
    \/ \E t \in Threads : \E values \in EventValues : Event(t, values)
    \/ \E id \in DOMAIN spans : Close(id)

SpecEmit == LayerInit /\ [][EmitNext]_vars

\* GENERATOR is a LazyLock: until its first deref it holds the closure
\* that calls Generator::new(). host_mac is what get_mac_address() will
\* answer then: Some(mac), or None for Ok(None) and Err(e) alike.
LazyGenerator(host_mac) == [host_mac |-> host_mac]
\* the LazyLock after its closure panicked: every later deref panics too
Poisoned == [poisoned |-> TRUE]
\* LazyLock::force: Generator::new() builds the generator from the MAC
\* address, or panics ("no mac address", "get mac address error")
Force(g) ==
    IF g.host_mac = None THEN Poisoned ELSE GeneratorNew(Unwrap(g.host_mac))

\* a process that has installed the layer (setup_cloud_native does not
\* touch GENERATOR) on a host with a MAC address or without one
LazyInit ==
    /\ generator \in {LazyGenerator(h) : h \in {Some(m) : m \in MacChoices} \cup {None}}
    /\ glock = 0 /\ gpc = <<>> /\ gret = <<>> /\ returned = <<>>
    /\ wall = 1
    /\ cin = {} /\ ctext = <<>> /\ cout = None /\ cphase = "off"
    /\ spans = EmptyMap /\ closed = EmptyMap /\ TRACE_ID_MAP = EmptyMap
    /\ stack = [t \in Threads |-> <<>>]
    /\ instant = 0 /\ stdout = <<>> /\ nspans = 0
    /\ wire = {}
    /\ TableIdle
    /\ FutIdle

\* the first span of the process is being created: on_new_span calls
\* gen_id(), whose GENERATOR.lock() is the first deref of the LazyLock.
\* When Generator::new() panics the panic leaves gen_id() and on_new_span.
GeneratorForce ==
    /\ "host_mac" \in DOMAIN generator
    /\ generator' = Force(generator)
    /\ UNCHANGED <<glock, gpc, gret, returned, wall, codecVars, layerVars, wire, tableVars, futVars>>

\* the rest of that span creation and every later one, the generator
\* being there
LazyNewSpan(t, attrs) == "mac" \in DOMAIN generator /\ NewSpan(t, attrs)

LazyNext ==
    \/ GeneratorForce
    \/ \E t \in Threads : \E attrs \in LocalAttrs : LazyNewSpan(t, attrs)
    \/ \E t \in Threads : \E id \in DOMAIN spans : Enter(t, id)
    \/ \E t \in Threads : Exit(t)
    \/ \E id \in DOMAIN spans : Close(id)

SpecLazy == LazyInit /\ [][LazyNext]_vars

\* TRACE_ID_MAP under tasks that call its three functions at once, each on
\* its own handle (the id of the span the task owns). Each function is the
\* one statement TRACE_ID_MAP.lock().unwrap().<op>(..): the mutex is
\* taken, the HashMap operation runs, the guard is dropped at the end of
\* the statement. The operation is followed from its first read of the map
\* to its last write, so that steps of other tasks can fall in between
\* wherever the mutex lets them.
Tasks == 1..NumTasks
\* the trace ids a task inserts
TableValues == {{5}, {6}}

\* a faulty mutex that is always free, which the atomicity of the table's
\* functions must tell from the Mutex
MutexFreeAlways(holder) == TRUE
\* Mutex::lock returns when no task holds the mutex
MutexFree(holder) == holder = 0

TableInit ==
    /\ generator = GeneratorNew({0, 47})
    /\ glock = 0 /\ gpc = <<>> /\ gret = <<>> /\ returned = <<>>
    /\ wall = 1
    /\ cin = {} /\ ctext = <<>> /\ cout = None /\ cphase = "off"
    /\ spans = EmptyMap /\ closed = EmptyMap /\ TRACE_ID_MAP = EmptyMap
    /\ stack = [t \in Threads |-> <<>>]
    /\ instant = 0 /\ stdout = <<>> /\ nspans = 0
    /\ wire = {}
    /\ tlock = 0
    /\ ttask = [k \in Tasks |-> [pc |-> "idle", op |-> "get", val |-> {},
                                 snap |-> EmptyMap, ret |-> None,
                                 wrote |-> None, done |-> 0]]
    /\ FutIdle

\* TRACE_ID_MAP.lock().unwrap() of insert_trace_id(id, val),
\* get_trace_id(id) or remove_trace_id(id), id the task's handle
TableLock(k, op, val) ==
    /\ ttask[k].pc = "idle"
    /\ ttask[k].done < MaxOps
    /\ MutexFree(tlock)
    /\ tlock' = k
    /\ ttask' = [ttask EXCEPT ![k].pc = "locked", ![k].op = op, ![k].val = val]
    /\ UNCHANGED <<codecVars, genVars, wall, layerVars, wire, futVars>>

\* the HashMap operation starts: it reads the map
TableRead(k) ==
    /\ ttask[k].pc = "locked"
    /\ ttask' = [ttask EXCEPT ![k].pc = "read", ![k].snap = TRACE_ID_MAP]
    /\ UNCHANGED <<codecVars, genVars, wall, layerVars, wire, tlock, futVars>>

\* the HashMap operation ends: insert and remove store the map changed at
\* the task's handle, get returns the entry (copied by .map(|v| *v)).
\* wrote is what the task's calls have left at its handle.
TableWrite(k) ==
    /\ ttask[k].pc = "read"
    /\ TRACE_ID_MAP' =
           IF ttask[k].op = "insert" THEN MapPut(ttask[k].snap, k, ttask[k].val)
           ELSE IF ttask[k].op = "remove" THEN MapRemove(ttask[k].snap, k)
           ELSE TRACE_ID_MAP
    /\ ttask' = [ttask EXCEPT
                    ![k].pc = "applied",
                    ![k].snap = EmptyMap,
                    ![k].ret = IF ttask[k].op = "get" THEN MapGet(ttask[k].snap, k)
                               ELSE None,
                    ![k].wrote = IF ttask[k].op = "insert" THEN Some(ttask[k].val)
                                 ELSE IF ttask[k].op = "remove" THEN None
                                 ELSE @]
    /\ UNCHANGED <<codecVars, genVars, wall, spans, closed, stack, instant,
                   stdout, nspans, wire, tlock, futVars>>

\* the statement ends: the guard is dropped and the function returns
TableUnlock(k) ==
    /\ ttask[k].pc = "applied"
    /\ tlock' = IF tlock = k THEN 0 ELSE tlock
    /\ ttask' = [ttask EXCEPT ![k].pc = "idle", ![k].done = @ + 1]
    /\ UNCHANGED <<codecVars, genVars, wall, layerVars, wire, futVars>>

TableNext ==
    \/ \E k \in Tasks : \E val \in TableValues : TableLock(k, "insert", val)
    \/ \E k \in Tasks : TableLock(k, "get", {})
    \/ \E k \in Tasks : TableLock(k, "remove", {})
    \/ \E k \in Tasks : TableRead(k)
    \/ \E k \in Tasks : TableWrite(k)
    \/ \E k \in Tasks : TableUnlock(k)

SpecTable == TableInit /\ [][TableNext]_vars

\* on_exit: enter_at.unwrap() panics on a span whose enter_at is None (one
\* that was never entered)
ExitPanics(storage) == storage.enter_at = None

\* an exit hook without a matching enter: Dispatch::exit(id) for a span
\* that no thread has on its stack. The registry finds nothing to pop and
\* the layer's on_exit runs all the same; when it panics the Storage is as
\* it was.
ExitUnmatched(id) ==
    /\ id \in DOMAIN spans
    /\ ~OnStack(id)
    /\ spans[id].storage.busy_time < MaxBusy
    /\ spans' = IF ExitPanics(spans[id].storage) THEN spans
                ELSE [spans EXCEPT ![id].storage = on_exit(@)]
    /\ UNCHANGED <<closed, stack, TRACE_ID_MAP, instant, stdout, nspans, wire,
                   codecVars, genVars, wall, tableVars, futVars>>

\* the layer with a span that is entered while it is not entered, exited,
\* and exited without an enter, while time passes
UnmatchedNext ==
    \/ \E t \in Threads : \E attrs \in LocalAttrs : NewTimedSpan(t, attrs)
    \/ \E t \in Threads : \E id \in DOMAIN spans : EnterApart(t, id)
    \/ \E t \in Threads : Exit(t)
    \/ \E id \in DOMAIN spans : ExitUnmatched(id)
    \/ Tick
    \/ \E id \in DOMAIN spans : Close(id)

SpecUnmatched == LayerInit /\ [][UnmatchedNext]_vars

\* the values of an event: those of the middlewares, and a trace id as
\* u128
DivertEvents ==
    EventValues \cup {<<[name |-> "trace_id", kind |-> "u128", val |-> {5}]>>}

\* the layer with spans that are created as roots and as children, with
\* and without a trace id as u128, entered, exited and recorded to, while
\* events are emitted
DivertNext ==
    \/ \E t \in Threads : \E attrs \in LocalAttrs : NewSpan(t, attrs)
    \/ \E t \in Threads : \E id \in DOMAIN spans : Enter(t, id)
    \/ \E t \in Threads : Exit(t)
    \/ \E id \in DOMAIN spans : \E values \in RecordCalls : Record(id, values)
    \/ \E t \in Threads : \E values \in DivertEvents : Event(t, values)

SpecDivert == LayerInit /\ [][DivertNext]_vars

\* the layer with spans that are created as roots and as children (with
\* no fields of their own), recorded to, entered while not entered, and exited, while events are
\* emitted
FrameNext ==
    \/ \E t \in Threads : NewSpan(t, <<>>)
    \/ \E id \in DOMAIN spans : \E values \in RecordValues : LinkRecord(id, values)
    \/ \E t \in Threads : \E id \in DOMAIN spans : EnterApart(t, id)
    \/ \E t \in Threads : Exit(t)
    \/ \E t \in Threads : \E values \in DivertEvents : Event(t, values)

SpecFrame == LayerInit /\ [][FrameNext]_vars

---------------------------------------------------------------------------
\* http/tracer.rs: the axum Tracer. A server serves one request, on
\* thread 1; its TraceFuture is tfut. A poll runs from its first statement
\* to its return before the thread does anything else.

\* the body size limit of a Tracer that logs bodies
LogBodySize == 8
\* Tracer::builder() .. build(): the default, with_log_headers(true),
\* with_log_body_size(n), both, and with_log_resp_body_size(n)
Tracers ==
    {[log_req_headers |-> h, log_resp_headers |-> h,
      log_req_body_size |-> q, log_resp_body_size |-> p] :
        h \in BOOLEAN, q \in {0, LogBodySize}, p \in {LogBodySize}}
    \cup {[log_req_headers |-> h, log_resp_headers |-> h,
           log_req_body_size |-> 0, log_resp_body_size |-> 0] : h \in BOOLEAN}

\* the status codes of the inner service's responses
StatusCodes == {200, 500}
\* the status of error::predefined::internal_error(e).into_response()
INTERNAL_ERROR == 500

\* requests served: without the trace header or with the header "10";
\* body says whether the request body can be read to its end (to_bytes
\* fails when the stream breaks or the body is longer than announced)
ServedRequests ==
    {[hdr |-> h, sent |-> None, body |-> b] :
        h \in {None, Some(<<49, 48>>)}, b \in {"ok", "error"}}

\* the line of a trace!(name = ..) event emitted inside the span
EventOf(name, span) ==
    on_event(<<[name |-> name, kind |-> "debug", val |-> "{}"]>>, Some(span))

\* TracerService::call: the span is created as in InboundAxum and the
\* TraceFuture is returned in status Beginning, holding the request. The
\* fields beside those of the struct: inner is the state of the future the
\* inner service returned ("none" before the call) and resp the status of
\* its response; stage is the await point the boxed async block is at;
\* calls and taken count inner.call(..) and req.take(); pc is "idle"
\* between polls, "polling" inside one, "ready" once a poll has returned
\* Poll::Ready(output) and "dropped" after the drop; woken says the task's
\* waker has been called since its last poll, waiting that the inner
\* future holds the waker; polls and exits count the polls begun and the
\* guards dropped.
TraceFutureNew(span, req, tracer) ==
    [status |-> "Beginning", req |-> Some(req), span |-> span, tracer |-> tracer,
     stage |-> "none", body |-> req.body,
     inner |-> "none", resp |-> 0, calls |-> 0, taken |-> 0,
     pc |-> "idle", woken |-> TRUE, waiting |-> FALSE, output |-> None,
     polls |-> 0, exits |-> 0, recorded |-> None]

TracerCall(t, req, tracer) ==
    /\ tfut = None /\ afut = None
    /\ stack[t] = <<>>
    /\ LET s == HeaderStr(req)
           trace_id == IF s = None THEN None ELSE from_str_radix_16(Unwrap(s))
       IN CreateSpan(t, InboundAttrs(trace_id), req.sent)
    /\ tfut' = Some(TraceFutureNew(nspans + 1, req, tracer))
    /\ UNCHANGED <<closed, stack, instant, stdout, codecVars, wire,
                   glock, gpc, gret, returned, wall, tableVars, afut, vfut>>

\* the executor polls the task it was woken for. TraceFuture::poll begins:
\* let _guard = this.span.enter()
TracePollEnter(t) ==
    /\ tfut # None
    /\ LET f == Unwrap(tfut)
       IN /\ f.pc = "idle"
          /\ f.woken
          /\ stack[t] = <<>>
          /\ stack' = [stack EXCEPT ![t] = SpanStackPush(@, f.span)]
          /\ spans' = [spans EXCEPT ![f.span].storage = on_enter(@),
                                    ![f.span].pairs = PairOpened(@)]
          /\ tfut' = Some([f EXCEPT !.pc = "polling", !.woken = FALSE,
                                    !.polls = @ + 1])
    /\ UNCHANGED <<closed, TRACE_ID_MAP, instant, stdout, nspans, wire,
                   codecVars, genVars, wall, tableVars, afut, vfut>>

\* the rest of one poll, as [fut, out, rec]: the future afterwards, the
\* lines printed by its trace! events, and the status it recorded on the
\* span if it did. respBody is the outcome of reading the response body.

\* status Beginning, no body logged: the inner service is called with the
\* request, the task wakes itself and the poll returns Pending
PollBeginningInner(f) ==
    [fut |-> [f EXCEPT !.req = None, !.taken = @ + 1, !.calls = @ + 1,
                       !.inner = "pending", !.status = "PollingInner",
                       !.woken = TRUE],
     out |-> IF f.tracer.log_req_headers
                 THEN <<EventOf("req_headers", f.span)>> ELSE <<>>,
     rec |-> None]

\* status Beginning, a body is logged: the request moves into the boxed
\* async block, which is not polled yet; the task wakes itself and the
\* poll returns Pending
PollBeginningFuture(f) ==
    [fut |-> [f EXCEPT !.req = None, !.taken = @ + 1, !.stage = "start",
                       !.status = "PollingFuture", !.woken = TRUE],
     out |-> <<>>,
     rec |-> None]

\* status PollingInner: ready!(inner_future.poll(cx)), then the response
\* is returned
PollPollingInner(f) ==
    IF f.inner = "ready"
        THEN [fut |-> [f EXCEPT !.output = Some(f.resp)],
              out |-> IF f.tracer.log_resp_headers
                          THEN <<EventOf("resp_headers", f.span)>> ELSE <<>>,
              rec |-> None]
        ELSE [fut |-> [f EXCEPT !.waiting = TRUE], out |-> <<>>, rec |-> None]

\* the async block from inner.call(req).await on, the inner future being
\* ready or not
BlockAwaitInner(f, out, respBody) ==
    IF f.inner = "ready"
        THEN LET hdrs == IF f.tracer.log_resp_headers
                             THEN <<EventOf("resp_headers", f.span)>> ELSE <<>>
             IN IF f.tracer.log_resp_body_size > 0 /\ respBody = "error"
                    THEN [fut |-> [f EXCEPT !.stage = "end",
                                            !.output = Some(INTERNAL_ERROR)],
                          out |-> out \o hdrs,
                          rec |-> Some(f.resp)]
                    ELSE [fut |-> [f EXCEPT !.stage = "end",
                                            !.output = Some(f.resp)],
                          out |-> out \o hdrs \o
                                  (IF f.tracer.log_resp_body_size > 0
                                       THEN <<EventOf("resp_body", f.span)>>
                                       ELSE <<>>),
                          rec |-> Some(f.resp)]
        ELSE [fut |-> [f EXCEPT !.stage = "inner", !.waiting = TRUE],
              out |-> out,
              rec |-> None]

\* status PollingFuture: future.poll(cx) runs the async block from the
\* await point it stopped at. first is the state of the inner future at
\* its first poll: "pending", or "ready" with the status `code`.
PollPollingFuture(f, first, code, respBody) ==
    IF f.stage = "start"
        THEN LET hdrs == IF f.tracer.log_req_headers
                             THEN <<EventOf("req_headers", f.span)>> ELSE <<>>
             IN IF f.tracer.log_req_body_size > 0 /\ f.body = "error"
                    THEN [fut |-> [f EXCEPT !.stage = "end",
                                            !.output = Some(INTERNAL_ERROR)],
                          out |-> hdrs,
                          rec |-> None]
                    ELSE BlockAwaitInner(
                             [f EXCEPT !.calls = @ + 1, !.inner = first,
                                       !.resp = IF first = "ready" THEN code ELSE 0],
                             hdrs \o (IF f.tracer.log_req_body_size > 0
                                          THEN <<EventOf("req_body", f.span)>>
                                          ELSE <<>>),
                             respBody)
        ELSE BlockAwaitInner(f, <<>>, respBody)

\* TraceFuture::poll after the guard is taken, up to its return, where the
\* guard is dropped: the registry pops the span and on_exit runs
TracePoll(f, first, code, respBody) ==
    IF f.status = "PollingFuture" THEN PollPollingFuture(f, first, code, respBody)
    ELSE IF f.status = "PollingInner" THEN PollPollingInner(f)
    ELSE IF f.tracer.log_req_body_size = 0 /\ f.tracer.log_resp_body_size = 0
        THEN PollBeginningInner(f)
    ELSE PollBeginningFuture(f)

TracePollRun(t, first, code, respBody) ==
    /\ tfut # None
    /\ Unwrap(tfut).pc = "polling"
    /\ LET f == Unwrap(tfut)
           r == TracePoll(f, first, code, respBody)
           recorded == IF r.rec = None THEN spans[f.span].storage
                       ELSE on_record(spans[f.span].storage,
                                      <<[name |-> "status", kind |-> "u64",
                                         val |-> Unwrap(r.rec)]>>)
       IN /\ stdout' = stdout \o r.out
          /\ spans' = [spans EXCEPT ![f.span].storage = on_exit(recorded),
                                    ![f.span].pairs = PairClosed(@)]
          /\ stack' = [stack EXCEPT ![t] = SubSeq(@, 1, Len(@) - 1)]
          /\ tfut' = Some([r.fut EXCEPT
                              !.pc = IF r.fut.output = None THEN "idle" ELSE "ready",
                              !.exits = @ + 1,
                              !.recorded = IF r.rec = None THEN @ ELSE r.rec])
    /\ UNCHANGED <<closed, TRACE_ID_MAP, instant, nspans, wire,
                   codecVars, genVars, wall, tableVars, afut, vfut>>

\* the inner service's future completes with a response; it calls the
\* waker it holds
TraceInnerDone(code) ==
    /\ tfut # None
    /\ Unwrap(tfut).inner = "pending"
    /\ Unwrap(tfut).pc \in {"idle", "polling"}
    /\ tfut' = Some([Unwrap(tfut) EXCEPT !.inner = "ready", !.resp = code,
                                         !.woken = @ \/ Unwrap(tfut).waiting,
                                         !.waiting = FALSE])
    /\ UNCHANGED <<codecVars, genVars, wall, layerVars, wire, tableVars, afut, vfut>>

\* the TraceFuture is dropped, after it returned its response or before
\* (the client went away): the span's handles go with it, the one the
\* async block holds included, and the span closes
TraceDrop ==
    /\ tfut # None
    /\ Unwrap(tfut).pc \in {"idle", "ready"}
    /\ LET f == Unwrap(tfut)
           r == on_close(f.span, spans[f.span].storage)
       IN /\ stdout' = r.out
          /\ TRACE_ID_MAP' = r.table
          /\ spans' = MapRemove(spans, f.span)
          /\ closed' = MapPut(closed, f.span, Archived(spans[f.span]))
          /\ tfut' = Some([f EXCEPT !.pc = "dropped"])
    /\ UNCHANGED <<stack, instant, nspans, wire, codecVars, genVars, wall,
                   tableVars, afut, vfut>>

\* an axum server handling one request
TraceNext ==
    \/ \E t \in Threads : \E req \in ServedRequests : \E tracer \in Tracers :
           TracerCall(t, req, tracer)
    \/ \E t \in Threads : TracePollEnter(t)
    \/ \E t \in Threads : \E first \in {"pending", "ready"} :
       \E code \in StatusCodes : \E respBody \in {"ok", "error"} :
           TracePollRun(t, first, code, respBody)
    \/ \E code \in StatusCodes : TraceInnerDone(code)
    \/ TraceDrop

SpecTrace == LayerInit /\ [][TraceNext]_vars

\* the executor polls a woken task, and a poll that began returns
FairSpecTrace ==
    /\ SpecTrace
    /\ \A t \in Threads : WF_vars(TracePollEnter(t))
    /\ \A t \in Threads : WF_vars(\E first \in {"pending", "ready"} :
                                  \E code \in StatusCodes : \E respBody \in {"ok", "error"} :
                                      TracePollRun(t, first, code, respBody))

---------------------------------------------------------------------------
\* http/server/tracer.rs: the actix Tracer. Its future for the request
\* served is afut.

\* Tracer::trace_only(), log_all(n), log_all(n).only_on_error(false) and
\* log_headers().only_on_error(false)
TraceConfigs ==
    {[log_req_headers |-> FALSE, log_resp_headers |-> FALSE,
      log_req_body_size |-> 0, log_resp_body_size |-> 0,
      only_on_error |-> FALSE, always_log_headers |-> FALSE],
     [log_req_headers |-> TRUE, log_resp_headers |-> TRUE,
      log_req_body_size |-> LogBodySize, log_resp_body_size |-> LogBodySize,
      only_on_error |-> FALSE, always_log_headers |-> FALSE],
     [log_req_headers |-> TRUE, log_resp_headers |-> TRUE,
      log_req_body_size |-> LogBodySize, log_resp_body_size |-> LogBodySize,
      only_on_error |-> TRUE, always_log_headers |-> FALSE],
     [log_req_headers |-> TRUE, log_resp_headers |-> TRUE,
      log_req_body_size |-> 0, log_resp_body_size |-> 0,
      only_on_error |-> TRUE, always_log_headers |-> FALSE]}

\* what the wrapped actix service answers: Ok(response) with a status,
\* the response of status 500 carrying the error it was made from, or
\* Err(error)
ServiceResults ==
    {[ok |-> TRUE, code |-> 200, error |-> FALSE],
     [ok |-> TRUE, code |-> INTERNAL_ERROR, error |-> TRUE],
     [ok |-> FALSE, code |-> INTERNAL_ERROR, error |-> TRUE]}
NoResult == [ok |-> FALSE, code |-> 0, error |-> FALSE]
\* StatusCode::is_server_error
SERVER_ERROR_MIN == 500
IsServerError(code) == code >= SERVER_ERROR_MIN

\* TracerMiddleware::call: the span is created as in InboundActix; with
\* no request body to log, WithoutLogBody::new calls the service at once,
\* otherwise with_log_body(..).instrument(span) is boxed and not yet
\* polled. The fields are those of TraceFutureNew, result being what the
\* service's future answers.
TracerFutureNew(span, req, config) ==
    [kind |-> IF config.log_req_body_size > 0 THEN "WithLogBody" ELSE "WithoutLogBody",
     span |-> span, trace_config |-> config, body |-> req.body,
     stage |-> "start",
     inner |-> IF config.log_req_body_size > 0 THEN "none" ELSE "pending",
     result |-> NoResult,
     calls |-> IF config.log_req_body_size > 0 THEN 0 ELSE 1,
     pc |-> "idle", woken |-> TRUE, waiting |-> FALSE, output |-> None,
     polls |-> 0, exits |-> 0, recorded |-> None]

MiddlewareCall(t, req, config) ==
    /\ tfut = None /\ afut = None
    /\ stack[t] = <<>>
    /\ LET s == HeaderStr(req)
           id == IF s = None THEN None ELSE from_radix_32(Unwrap(s))
       IN CreateSpan(t, InboundAttrs(id), req.sent)
    /\ afut' = Some(TracerFutureNew(nspans + 1, req, config))
    /\ UNCHANGED <<closed, stack, instant, stdout, codecVars, wire,
                   glock, gpc, gret, returned, wall, tableVars, tfut, vfut>>

\* a poll begins: WithoutLogBody::poll takes this.span.enter(), and the
\* Instrumented future of the other variant enters its span likewise
TracerPollEnter(t) ==
    /\ afut # None
    /\ LET f == Unwrap(afut)
       IN /\ f.pc = "idle"
          /\ f.woken
          /\ stack[t] = <<>>
          /\ stack' = [stack EXCEPT ![t] = SpanStackPush(@, f.span)]
          /\ spans' = [spans EXCEPT ![f.span].storage = on_enter(@),
                                    ![f.span].pairs = PairOpened(@)]
          /\ afut' = Some([f EXCEPT !.pc = "polling", !.woken = FALSE,
                                    !.polls = @ + 1])
    /\ UNCHANGED <<closed, TRACE_ID_MAP, instant, stdout, nspans, wire,
                   codecVars, genVars, wall, tableVars, tfut, vfut>>

\* the events a flag lets through
EventIf(flag, name, span) == IF flag THEN <<EventOf(name, span)>> ELSE <<>>

\* WithoutLogBody::poll after the guard is taken, as [fut, out, rec]
WithoutLogBodyPoll(f) ==
    IF f.inner # "ready"
        THEN [fut |-> [f EXCEPT !.waiting = TRUE], out |-> <<>>, rec |-> None]
    ELSE IF f.result.ok
        THEN LET c == f.trace_config
                 should_log_headers ==
                     \/ IsServerError(f.result.code)
                     \/ ~c.only_on_error
                     \/ c.always_log_headers
             IN [fut |-> [f EXCEPT !.output = Some(f.result), !.stage = "end"],
                 out |-> EventIf(c.log_req_headers /\ should_log_headers,
                                 "req_headers", f.span)
                         \o EventIf(c.log_resp_headers /\ should_log_headers,
                                    "resp_headers", f.span)
                         \o EventIf(f.result.error, "error", f.span),
                 rec |-> Some(f.result.code)]
    ELSE [fut |-> [f EXCEPT !.output = Some(f.result), !.stage = "end"],
          out |-> <<EventOf("error", f.span)>>,
          rec |-> None]

\* with_log_body from service.call(req).await on
WithLogBodyAwait(f, out, respBody) ==
    IF f.inner # "ready"
        THEN [fut |-> [f EXCEPT !.stage = "inner", !.waiting = TRUE],
              out |-> out, rec |-> None]
    ELSE IF ~f.result.ok
        THEN [fut |-> [f EXCEPT !.output = Some(f.result), !.stage = "end"],
              out |-> out \o <<EventOf("error", f.span)>>,
              rec |-> None]
    ELSE LET c == f.trace_config
             should_log == IsServerError(f.result.code) \/ ~c.only_on_error
             should_log_headers == should_log \/ c.always_log_headers
             lines == out
                 \o EventIf(c.log_req_headers /\ should_log_headers,
                            "req_headers", f.span)
                 \o EventIf(should_log, "req_body", f.span)
                 \o EventIf(c.log_resp_headers /\ should_log_headers,
                            "resp_headers", f.span)
         IN IF c.log_resp_body_size > 0 /\ should_log
                THEN IF respBody = "error"
                         THEN [fut |-> [f EXCEPT
                                           !.output = Some([f.result EXCEPT !.ok = FALSE]),
                                           !.stage = "end"],
                               out |-> lines
                                       \o EventIf(f.result.error, "error", f.span)
                                       \o <<EventOf("error", f.span)>>,
                               rec |-> Some(f.result.code)]
                         ELSE [fut |-> [f EXCEPT !.output = Some(f.result),
                                                 !.stage = "end"],
                               out |-> lines
                                       \o EventIf(f.result.error, "error", f.span)
                                       \o <<EventOf("resp_body", f.span)>>,
                               rec |-> Some(f.result.code)]
                ELSE [fut |-> [f EXCEPT !.output = Some(f.result), !.stage = "end"],
                      out |-> lines,
                      rec |-> Some(f.result.code)]

\* with_log_body, polled from the await point it stopped at: first and
\* result are the state of the service's future at its first poll
WithLogBodyPoll(f, first, result, respBody) ==
    IF f.stage = "start"
        THEN IF f.body = "error"
                 THEN [fut |-> [f EXCEPT !.output = Some([NoResult EXCEPT !.code = INTERNAL_ERROR]),
                                         !.stage = "end"],
                       out |-> <<EventOf("error", f.span)>>,
                       rec |-> None]
                 ELSE WithLogBodyAwait(
                          [f EXCEPT !.calls = @ + 1, !.inner = first,
                                    !.result = IF first = "ready" THEN result ELSE NoResult],
                          <<>>, respBody)
        ELSE WithLogBodyAwait(f, <<>>, respBody)

\* the rest of the poll up to its return, where the guard is dropped
TracerPollRun(t, first, result, respBody) ==
    /\ afut # None
    /\ Unwrap(afut).pc = "polling"
    /\ LET f == Unwrap(afut)
           r == IF f.kind = "WithLogBody"
                    THEN WithLogBodyPoll(f, first, result, respBody)
                    ELSE WithoutLogBodyPoll(f)
           recorded == IF r.rec = None THEN spans[f.span].storage
                       ELSE on_record(spans[f.span].storage,
                                      <<[name |-> "status", kind |-> "u64",
                                         val |-> Unwrap(r.rec)]>>)
       IN /\ stdout' = stdout \o r.out
          /\ spans' = [spans EXCEPT ![f.span].storage = on_exit(recorded),
                                    ![f.span].pairs = PairClosed(@)]
          /\ stack' = [stack EXCEPT ![t] = SubSeq(@, 1, Len(@) - 1)]
          /\ afut' = Some([r.fut EXCEPT
                              !.pc = IF r.fut.output = None THEN "idle" ELSE "ready",
                              !.exits = @ + 1,
                              !.recorded = IF r.rec = None THEN @ ELSE r.rec])
    /\ UNCHANGED <<closed, TRACE_ID_MAP, instant, nspans, wire,
                   codecVars, genVars, wall, tableVars, tfut, vfut>>

\* the service's future completes; it calls the waker it holds
TracerInnerDone(result) ==
    /\ afut # None
    /\ Unwrap(afut).inner = "pending"
    /\ Unwrap(afut).pc \in {"idle", "polling"}
    /\ afut' = Some([Unwrap(afut) EXCEPT !.inner = "ready", !.result = result,
                                         !.woken = @ \/ Unwrap(afut).waiting,
                                         !.waiting = FALSE])
    /\ UNCHANGED <<codecVars, genVars, wall, layerVars, wire, tableVars, tfut, vfut>>

\* the TracerFuture is dropped, after it returned or before: the span's
\* handles go with it and the span closes
TracerDrop ==
    /\ afut # None
    /\ Unwrap(afut).pc \in {"idle", "ready"}
    /\ LET f == Unwrap(afut)
           r == on_close(f.span, spans[f.span].storage)
       IN /\ stdout' = r.out
          /\ TRACE_ID_MAP' = r.table
          /\ spans' = MapRemove(spans, f.span)
          /\ closed' = MapPut(closed, f.span, Archived(spans[f.span]))
          /\ afut' = Some([f EXCEPT !.pc = "dropped"])
    /\ UNCHANGED <<stack, instant, nspans, wire, codecVars, genVars, wall,
                   tableVars, tfut, vfut>>

\* a server, axum or actix, handling one request under its tracer
ServeNext ==
    \/ \E t \in Threads : \E req \in ServedRequests : \E tracer \in Tracers :
           TracerCall(t, req, tracer)
    \/ \E t \in Threads : TracePollEnter(t)
    \/ \E t \in Threads : \E first \in {"pending", "ready"} :
       \E code \in StatusCodes : \E respBody \in {"ok", "error"} :
           TracePollRun(t, first, code, respBody)
    \/ \E code \in StatusCodes : TraceInnerDone(code)
    \/ TraceDrop
    \/ \E t \in Threads : \E req \in ServedRequests : \E config \in TraceConfigs :
           MiddlewareCall(t, req, config)
    \/ \E t \in Threads : TracerPollEnter(t)
    \/ \E t \in Threads : \E first \in {"pending", "ready"} :
       \E result \in ServiceResults : \E respBody \in {"ok", "error"} :
           TracerPollRun(t, first, result, respBody)
    \/ \E result \in ServiceResults : TracerInnerDone(result)
    \/ TracerDrop

SpecServe == LayerInit /\ [][ServeNext]_vars

---------------------------------------------------------------------------
\* http/jwt.rs (axum) and http/server/jwt.rs (actix): the JWT Verifier.
\* The VerifierFuture of the request served is vfut.

\* "Bearer " and "Basic ", as bytes
BEARER == <<66, 101, 97, 114, 101, 114, 32>>
BASIC == <<66, 97, 115, 105, 99, 32>>
\* the statuses of the verifier's own answers: unauthorized(e) in axum,
\* VerifierError::status_code in actix
UNAUTHORIZED == 401
BAD_REQUEST == 400

\* The tokens of the requests served: form says whether the text after
\* the prefix parses as a JWT whose header has expired_at, key who signed
\* it, expired_at the time in its header, claims its payload.
Tokens ==
    {[form |-> "garbage", key |-> "none", expired_at |-> 0, claims |-> "none"],
     [form |-> "jwt", key |-> "theirs", expired_at |-> 2, claims |-> "mallory"],
     [form |-> "jwt", key |-> "ours", expired_at |-> 1, claims |-> "alice"],
     [form |-> "jwt", key |-> "ours", expired_at |-> 2, claims |-> "alice"]}
\* the Authorization header of a request: none, bytes that are no visible
\* ASCII, "Basic " and a token, "Bearer " and a token
AuthHeaders ==
    {None, Some([bytes |-> <<200>>, token |-> None])}
    \cup {Some([bytes |-> BASIC, token |-> Some(k)]) :
              k \in {k \in Tokens : k.expired_at = 2 /\ k.key = "ours"}}
    \cup {Some([bytes |-> BEARER, token |-> Some(k)]) : k \in Tokens}
\* a request with its extensions: claims is the ClaimsValue if one was
\* inserted
AuthRequests == {[auth |-> a, claims |-> None] : a \in AuthHeaders}

\* the key the Verifier was built with
OurKey == "ours"

\* fn verify(headers, key), `now` being SystemTime::now(): the claims, or
\* the VerifierError
verify(auth, key, now) ==
    IF auth = None THEN [ok |-> FALSE, v |-> "NotProvided"]
    ELSE IF ToStr(Unwrap(auth).bytes) = None THEN [ok |-> FALSE, v |-> "NotValidStr"]
    ELSE IF Unwrap(auth).bytes # BEARER THEN [ok |-> FALSE, v |-> "InvalidTokenType"]
    ELSE LET token == Unwrap(Unwrap(auth).token)
         IN IF token.form # "jwt" \/ token.key # key
                THEN [ok |-> FALSE, v |-> "JwtError"]
            ELSE IF token.expired_at < now THEN [ok |-> FALSE, v |-> "Expired"]
            ELSE [ok |-> TRUE, v |-> token.claims]

\* a faulty match that lets every request through, which the modes of the
\* verifier must tell from the poll's
RejectsNever(mode, verdict) == FALSE
\* the Err arm of the match in poll: in MustSuccess mode the poll returns
\* the verifier's own answer
Rejects(mode, verdict) == ~verdict.ok /\ mode = "MustSuccess"

\* VerifierService::call / VerifierMiddleware::call: the future holds the
\* request and no inner future. The fields beside those of the struct are
\* those of TraceFutureNew; orig is the request as it came, given the
\* request the inner service was called with, at the clock reading of
\* verify.
VerifierFutureNew(kind, mode, req) ==
    [kind |-> kind, mode |-> mode, req |-> Some(req), future |-> None,
     orig |-> req, given |-> None, at |-> 0,
     inner |-> "none", resp |-> 0, calls |-> 0,
     pc |-> "idle", woken |-> TRUE, waiting |-> FALSE, output |-> None,
     polls |-> 0]

VerifierCall(kind, mode, req) ==
    /\ vfut = None
    /\ vfut' = Some(VerifierFutureNew(kind, mode, req))
    /\ UNCHANGED <<codecVars, genVars, wall, layerVars, wire, tableVars, tfut, afut>>

\* the poll of the inner future: its response, or Pending with the waker
\* left to it
VerifierPollInner(f) ==
    IF f.inner = "ready"
        THEN [f EXCEPT !.output = Some([by |-> "inner", code |-> f.resp])]
        ELSE [f EXCEPT !.waiting = TRUE]

\* VerifierFuture::poll. With the inner future there it is polled.
\* Otherwise the request is verified; a rejected request is answered with
\* the error (a 401 response in axum, Err(e) of status 400 in actix); any
\* other gets the ClaimsValue, is taken and handed to the inner service.
\* axum then wakes the task and returns Pending, actix polls the new
\* future at once (first and code are its state at that poll).
VerifierPoll(f, now, first, code) ==
    IF f.future # None THEN VerifierPollInner(f)
    ELSE LET verdict == verify(Unwrap(f.req).auth, OurKey, now)
             g == [f EXCEPT !.at = now]
         IN IF Rejects(f.mode, verdict)
                THEN [g EXCEPT !.output =
                         Some([by |-> "verifier",
                               code |-> IF f.kind = "axum" THEN UNAUTHORIZED
                                        ELSE BAD_REQUEST])]
                ELSE LET called ==
                             [g EXCEPT !.given = Some([Unwrap(f.req) EXCEPT
                                                          !.claims = Some(verdict)]),
                                       !.req = None,
                                       !.calls = @ + 1,
                                       !.future = Some("inner")]
                     IN IF f.kind = "axum"
                            THEN [called EXCEPT !.inner = "pending", !.woken = TRUE]
                            ELSE VerifierPollInner(
                                     [called EXCEPT !.inner = first,
                                                    !.resp = IF first = "ready"
                                                                 THEN code ELSE 0])

\* the executor polls the task it was woken for
VerifierPollRun(first, code) ==
    /\ vfut # None
    /\ Unwrap(vfut).pc = "idle"
    /\ Unwrap(vfut).woken
    /\ LET f == Unwrap(vfut)
           r == VerifierPoll([f EXCEPT !.woken = FALSE, !.polls = @ + 1],
                             wall, first, code)
       IN vfut' = Some([r EXCEPT !.pc = IF r.output = None THEN "idle" ELSE "ready"])
    /\ UNCHANGED <<codecVars, genVars, wall, layerVars, wire, tableVars, tfut, afut>>

\* the inner service's future completes; it calls the waker it holds
VerifierInnerDone(code) ==
    /\ vfut # None
    /\ Unwrap(vfut).inner = "pending"
    /\ Unwrap(vfut).pc = "idle"
    /\ vfut' = Some([Unwrap(vfut) EXCEPT !.inner = "ready", !.resp = code,
                                         !.woken = @ \/ Unwrap(vfut).waiting,
                                         !.waiting = FALSE])
    /\ UNCHANGED <<codecVars, genVars, wall, layerVars, wire, tableVars, tfut, afut>>

\* a server, axum or actix, handling one request under its verifier, in
\* either mode, while time passes
VerifierNext ==
    \/ \E kind \in {"axum", "actix"} : \E mode \in {"MustSuccess", "AllowFailed"} :
       \E req \in AuthRequests : VerifierCall(kind, mode, req)
    \/ \E first \in {"pending", "ready"} : \E code \in StatusCodes :
           VerifierPollRun(first, code)
    \/ \E code \in StatusCodes : VerifierInnerDone(code)
    \/ ClockAdvance

SpecVerifier == LayerInit /\ [][VerifierNext]_vars

HttpNext ==
    \/ \E t \in Threads : NewSpan(t, <<>>)
    \/ \E t \in Threads : Outbound(t)
    \/ \E t \in Threads : \E req \in wire \cup ExternalRequests : InboundActix(t, req)
    \/ \E t \in Threads : \E req \in wire \cup ExternalRequests : InboundAxum(t, req)
    \/ \E t \in Threads : \E id \in DOMAIN spans : Enter(t, id)
    \/ \E t \in Threads : Exit(t)
    \/ \E id \in DOMAIN spans : Close(id)

SpecHttp == LayerInit /\ [][HttpNext]_vars

---------------------------------------------------------------------------
\* Properties of the layer

\* the lines on_close printed for span id
RecordsOf(id) == {k \in 1..Len(stdout) : stdout[k].of = id}

\* C3: in every reachable state TRACE_ID_MAP has an entry for a span handle
\* if and only if the span has been created and is not yet closed.
C3_TableIffOpen == DOMAIN TRACE_ID_MAP = DOMAIN spans

\* C5: a root span created with the explicit trace id T (the u128 field
\* trace_id) has trace_id T and no parent_id, for every T.
C5_RootSeeding ==
    \A id \in DOMAIN spans :
        (spans[id].parent = None /\ spans[id].explicit # None)
            => /\ spans[id].storage.trace_id = Unwrap(spans[id].explicit)
               /\ spans[id].storage.parent_id = None

\* C8: for every span that was closed exactly one span-close record was
\* printed and its table entry is gone; no record is printed for a span
\* that is still open.
C8_CloseOnce ==
    \A id \in 1..nspans :
        /\ id \in DOMAIN closed
              => Cardinality(RecordsOf(id)) = 1 /\ id \notin DOMAIN TRACE_ID_MAP
        /\ id \in DOMAIN spans => RecordsOf(id) = {}

\* C9: while a span is open get_trace_id(handle) is Some(t), t the
\* trace_id in the span's Storage; once the span is closed it is None.
C9_TableHygiene ==
    \A id \in 1..nspans :
        /\ id \in DOMAIN spans => get_trace_id(id) = Some(spans[id].storage.trace_id)
        /\ id \in DOMAIN closed => get_trace_id(id) = None

\* C4: a span created while it has an open parent has the parent's
\* trace_id, and its parent_id is the parent's span_id.
C4_TraceInheritance ==
    \A id \in DOMAIN spans :
        spans[id].parent # None
            => LET p == Unwrap(spans[id].parent)
               IN /\ p \in DOMAIN spans
                  /\ spans[id].storage.trace_id = spans[p].storage.trace_id
                  /\ spans[id].storage.parent_id = Some(spans[p].storage.span_id)

\* a child span that was created with a trace id of its own (recorded by
\* the application or decoded from a header) and has its parent's instead
C4_Witness ==
    \E id \in DOMAIN spans :
        /\ spans[id].parent # None
        /\ spans[id].explicit # None
        /\ Unwrap(spans[id].explicit) # {}
        /\ spans[id].storage.trace_id # Unwrap(spans[id].explicit)
        /\ spans[id].storage.trace_id = spans[Unwrap(spans[id].parent)].storage.trace_id
        /\ spans[id].storage.parent_id = Some(spans[Unwrap(spans[id].parent)].storage.span_id)

\* the root span an inbound tracer created for a request that a traced
\* service stamped
Propagated(s) == s.sent # None /\ s.parent = None

\* C6: when an outbound middleware stamps X-Trace-Id with the encoding of
\* its span's trace id T and an inbound tracer (actix or axum) creates its
\* root span from that request, the root span has trace_id T and its
\* span-close record carries the same trace_id text as the sender's.
C6_Propagation ==
    /\ \A id \in DOMAIN spans :
           Propagated(spans[id])
               => spans[id].storage.trace_id = Unwrap(spans[id].sent)
    /\ \A k \in 1..Len(stdout) :
           Propagated(closed[stdout[k].of])
               => stdout[k].trace_id = Radix32Fmt(Unwrap(closed[stdout[k].of].sent))

\* C7: for every span that is created, close eventually runs: a span-close
\* record is printed for it and its entry leaves TRACE_ID_MAP, so no
\* handle stays in the table forever.
C7_NoLeak ==
    \A id \in 1..MaxSpans :
        (id \in DOMAIN spans) ~> (id \notin DOMAIN TRACE_ID_MAP /\ RecordsOf(id) # {})

\* C14: for a span whose enter/exit hooks arrive as pairs lying apart,
\* busy_time is the sum over the pairs of exit time - enter time, at every
\* moment the span is not entered and in its span-close record, and the
\* record's idle_time is (close time - created_at) - busy_time.
C14_BusyIdle ==
    /\ \A id \in DOMAIN spans :
           ~OnStack(id) => spans[id].storage.busy_time = spans[id].pairs.sum
    /\ \A id \in DOMAIN closed :
           /\ RecordsOf(id) # {}
           /\ \A k \in RecordsOf(id) :
                  /\ stdout[k].busy_time = closed[id].pairs.sum
                  /\ stdout[k].idle_time =
                         (closed[id].closed_at - closed[id].storage.created_at)
                             - stdout[k].busy_time
\* a span entered once, exited a tick later and closed right away: its
\* record has the tick as busy_time and no idle_time
C14_Witness ==
    \E k \in 1..Len(stdout) :
        /\ closed[stdout[k].of].pairs.sum > 0
        /\ stdout[k].busy_time = closed[stdout[k].of].pairs.sum
        /\ stdout[k].idle_time = 0

\* C15: in every state every span has busy_time <= now - created_at,
\* whatever enter and exit hooks it has had, a re-entry before the previous
\* exit included.
C15_BusyBound ==
    \A id \in DOMAIN spans :
        spans[id].storage.busy_time <= instant - spans[id].storage.created_at

\* C16: an exit of a span adds exactly now - enter_at to its busy_time and
\* leaves its enter_at cleared (None), so the span is not marked as
\* entered after the exit.
C16_ExitClosesWindow ==
    [][\A t \in Threads :
           Exit(t) =>
               LET id == stack[t][Len(stack[t])].id
                   before == spans[id].storage
                   after == spans'[id].storage
               IN /\ after.busy_time =
                         before.busy_time + (instant - Unwrap(before.enter_at))
                  /\ after.enter_at = None]_vars

\* C17: a span created with an open parent and with an explicit u128
\* trace_id field E that differs from the parent's trace id has the
\* parent's trace_id, not E.
C17_InheritanceWins ==
    \A id \in DOMAIN spans :
        (/\ spans[id].parent # None
         /\ spans[id].explicit # None
         /\ Unwrap(spans[id].explicit) # spans[Unwrap(spans[id].parent)].storage.trace_id)
            => /\ spans[id].storage.trace_id =
                      spans[Unwrap(spans[id].parent)].storage.trace_id
               /\ spans[id].storage.trace_id # Unwrap(spans[id].explicit)
               /\ get_trace_id(id) = Some(spans[Unwrap(spans[id].parent)].storage.trace_id)
\* the span of a request whose header "10" the axum tracer decoded to 16,
\* created inside an entered span and carrying that span's trace id
C17_Witness ==
    \E id \in DOMAIN spans :
        /\ spans[id].parent # None
        /\ spans[id].explicit = Some({HEX_SHIFT})
        /\ spans[id].storage.trace_id = spans[Unwrap(spans[id].parent)].storage.trace_id
        /\ spans[id].storage.trace_id # {HEX_SHIFT}

\* C18: the span_id of a span differs from the span_id of every other
\* span ever created and from the span's own trace_id, and two root spans
\* created with no explicit trace id have different trace_ids.
C18_FreshIds ==
    \A i \in DOMAIN Created :
        /\ Created[i].storage.span_id # Created[i].storage.trace_id
        /\ \A j \in DOMAIN Created \ {i} :
               /\ Created[i].storage.span_id # Created[j].storage.span_id
               /\ (/\ Created[i].parent = None /\ Created[i].explicit = None
                   /\ Created[j].parent = None /\ Created[j].explicit = None)
                      => Created[i].storage.trace_id # Created[j].storage.trace_id

\* C19: the parent_id of an open span is the span_id of a span created
\* earlier, whose trace_id the span shares; a span has no parent_id exactly
\* when it was created with no open ancestor.
C19_ParentLinkage ==
    \A id \in DOMAIN spans :
        /\ spans[id].storage.parent_id # None
               => \E p \in DOMAIN Created :
                      /\ p < id
                      /\ Created[p].storage.span_id = Unwrap(spans[id].storage.parent_id)
                      /\ Created[p].storage.trace_id = spans[id].storage.trace_id
        /\ spans[id].storage.parent_id = None <=> spans[id].parent = None
\* the span of an outbound request made inside an entered root span: its
\* parent_id is the root's span_id, and its header went out with the
\* root's trace id
C19_Witness ==
    \E id \in DOMAIN spans :
        /\ spans[id].parent # None
        /\ spans[id].explicit = None
        /\ spans[id].storage.parent_id = Some(spans[Unwrap(spans[id].parent)].storage.span_id)
        /\ spans[Unwrap(spans[id].parent)].storage.parent_id = None
        /\ \E req \in wire : req.sent = Some(spans[Unwrap(spans[id].parent)].storage.trace_id)

\* C20: a record() call on a span sets each supplied key of the span's
\* fields to its new value, leaves every other key of the fields as it
\* was, and leaves trace_id, span_id, parent_id, created_at, enter_at,
\* busy_time and the lookup table as they were.
C20_RecordMerges ==
    [][\A id \in DOMAIN spans : \A values \in RecordCalls :
           Record(id, values) =>
               LET before == spans[id].storage
                   after == spans'[id].storage
                   names == {values[i].name : i \in 1..Len(values)}
               IN /\ \A k \in names :
                         /\ k \in DOMAIN after.fields
                         /\ after.fields[k].val = spans'[id].supplied[k].val
                  /\ DOMAIN after.fields \subseteq DOMAIN before.fields \cup names
                  /\ \A k \in DOMAIN before.fields \ names :
                         /\ k \in DOMAIN after.fields
                         /\ after.fields[k] = before.fields[k]
                  /\ after.trace_id = before.trace_id
                  /\ after.span_id = before.span_id
                  /\ after.parent_id = before.parent_id
                  /\ after.created_at = before.created_at
                  /\ after.enter_at = before.enter_at
                  /\ after.busy_time = before.busy_time
                  /\ TRACE_ID_MAP' = TRACE_ID_MAP]_vars

\* C21: when a root span is created with a u128 field named trace_id, the
\* value is the span's trace id and the span's fields, stored and printed,
\* have no key trace_id; a u128 field of another name is stored as a field
\* of the span.
C21_Diversion ==
    [][\A t \in Threads : \A attrs \in SeedAttrs :
           NewSpan(t, attrs) =>
               LET new == spans'[nspans']
               IN /\ (new.parent = None /\ ExplicitOf(attrs) # None)
                         => /\ new.storage.trace_id = Unwrap(ExplicitOf(attrs))
                            /\ "trace_id" \notin DOMAIN new.storage.fields
                  /\ \A k \in 1..Len(attrs) :
                         (attrs[k].kind = "u128" /\ attrs[k].name # "trace_id")
                             => /\ attrs[k].name \in DOMAIN new.storage.fields
                                /\ new.storage.fields[attrs[k].name].val = attrs[k].val
                  /\ \A k \in 1..Len(stdout') :
                         "trace_id" \notin DOMAIN stdout'[k].fields]_vars

\* the innermost of the spans a thread is inside: the one it entered last
\* among those on its stack, a span counting from its first enter (a span
\* entered again inside a span it encloses still encloses that span)
Innermost(stk) ==
    stk[Max({k \in 1..Len(stk) : \A j \in 1..(k - 1) : stk[j].id # stk[k].id})].id
\* C22: an event emitted while the thread is inside spans carries the
\* encoded trace_id and span_id of the innermost of them; an event emitted
\* outside any span carries neither key.
C22_EventCorrelation ==
    [][\A t \in Threads : \A values \in EventValues :
           Event(t, values) =>
               LET line == stdout'[Len(stdout')]
               IN IF stack[t] = <<>>
                      THEN line.trace_id = None /\ line.span_id = None
                      ELSE LET inner == spans[Innermost(stack[t])].storage
                           IN /\ line.trace_id = Some(Radix32Fmt(inner.trace_id))
                              /\ line.span_id = Some(Radix32Fmt(inner.span_id))
                              /\ from_radix_32(Unwrap(line.span_id)) = Some(inner.span_id)]_vars
\* an event line with the span_id of a child span whose parent is open
C22_Witness ==
    \E k \in EventLines : \E id \in DOMAIN spans :
        /\ spans[id].parent # None
        /\ stdout[k].span_id = Some(Radix32Fmt(spans[id].storage.span_id))
        /\ stdout[k].trace_id = Some(Radix32Fmt(spans[Unwrap(spans[id].parent)].storage.trace_id))

\* C23: the span-close record has the key parent_id, the encoding of the
\* parent's span_id, if and only if the span was created with a parent;
\* its trace_id and span_id are the encodings of the values the span got
\* at its creation, which no record, enter or exit changes. (A span leaves
\* `spans` when it is closed, and a line is printed unless on_close
\* panics.)
C23_CloseLinkage ==
    [][/\ \A id \in DOMAIN spans \cap DOMAIN spans' :
              /\ spans'[id].storage.trace_id = spans[id].storage.trace_id
              /\ spans'[id].storage.span_id = spans[id].storage.span_id
              /\ spans'[id].storage.parent_id = spans[id].storage.parent_id
       /\ \A id \in DOMAIN spans :
              (id \notin DOMAIN spans' /\ Len(stdout') > Len(stdout)) =>
                  LET line == stdout'[Len(stdout')]
                  IN /\ line.trace_id = Radix32Fmt(spans[id].storage.trace_id)
                     /\ line.span_id = Radix32Fmt(spans[id].storage.span_id)
                     /\ line.parent_id # None <=> spans[id].parent # None
                     /\ spans[id].parent # None =>
                            line.parent_id =
                                Some(Radix32Fmt(spans[Unwrap(spans[id].parent)].storage.span_id))]_vars
\* the close record of a span that was created inside another, recorded
\* to and entered: it names its parent, which is still open
C23_Witness ==
    \E k \in 1..Len(stdout) : \E p \in DOMAIN spans :
        /\ stdout[k].type = "span"
        /\ "status" \in DOMAIN stdout[k].fields
        /\ closed[stdout[k].of].storage.enter_at # None
        /\ closed[stdout[k].of].parent = Some(p)
        /\ stdout[k].parent_id = Some(Radix32Fmt(spans[p].storage.span_id))
        /\ stdout[k].trace_id = Radix32Fmt(spans[p].storage.trace_id)

\* C24: a request the outbound middleware sends while the thread is inside
\* a span with trace id T carries X-Trace-Id with the encoding of T; a
\* request it sends while the thread is inside no span carries no such
\* header.
C24_OutboundStamping ==
    [][\A t \in Threads :
           Outbound(t) =>
               LET cur == SpanStackCurrent(stack[t])
               IN \A req \in wire' \ wire :
                      req.hdr = IF cur = None THEN None
                                ELSE Some(Radix32Fmt(spans[Unwrap(cur)].storage.trace_id))]_vars

\* C25: when a request arrives without X-Trace-Id, or with a value the
\* codec cannot decode, at a thread that is inside no span, the inbound
\* tracer passes no explicit trace id and the request's root span gets a
\* freshly generated trace id.
C25_InboundNewTrace ==
    [][\A t \in Threads : \A req \in wire \cup ExternalRequests :
           (/\ InboundActix(t, req) \/ InboundAxum(t, req)
            /\ SpanStackCurrent(stack[t]) = None
            /\ \/ HeaderStr(req) = None
               \/ from_radix_32(Unwrap(HeaderStr(req))) = None)
               => /\ spans'[nspans'].explicit = None
                  /\ spans'[nspans'].storage.trace_id = gen_id(generator, wall).id
                  /\ spans'[nspans'].storage.parent_id = None]_vars

\* C26: every close of a span and every event writes exactly one line, and
\* neither hook panics. (A span leaves `spans` when it is closed; on_close
\* prints nothing when it panics.)
C26_EmissionNeverAborts ==
    [][/\ \A id \in DOMAIN spans :
              id \notin DOMAIN spans'
                  => /\ ~ClosePanics(spans[id].storage)
                     /\ Len(stdout') = Len(stdout) + 1
                     /\ stdout'[Len(stdout')].type = "span"
       /\ \A t \in Threads : \A values \in EventValues :
              Event(t, values)
                  => /\ Len(stdout') = Len(stdout) + 1
                     /\ stdout'[Len(stdout')].type = "event"]_vars

\* C27: on a host without a MAC address no gen_id() call of a span
\* creation panics: the failure to build the generator is an error value
\* reported at startup.
C27_InitFailureIsError == generator # Poisoned

\* C28: with tasks calling insert_trace_id, get_trace_id and
\* remove_trace_id at once, each on its own handle, the table holds at a
\* task's handle what the task's last insert or remove left there (no
\* insert or remove is lost), a lookup returns just that, and the mutex is
\* held by the one task that is inside a map operation and by no task
\* otherwise.
C28_TableAtomic ==
    /\ \A k \in DOMAIN ttask :
           /\ MapGet(TRACE_ID_MAP, k) = ttask[k].wrote
           /\ (ttask[k].pc = "applied" /\ ttask[k].op = "get")
                  => ttask[k].ret = ttask[k].wrote
           /\ ttask[k].pc # "idle" <=> tlock = k
    /\ DOMAIN TRACE_ID_MAP \subseteq DOMAIN ttask \cup DOMAIN spans \cup DOMAIN closed
\* a lookup has returned the entry its task inserted while another task's
\* entry is in the table as well
C28_Witness ==
    \E k, j \in DOMAIN ttask :
        /\ k # j
        /\ ttask[k].pc = "applied" /\ ttask[k].op = "get"
        /\ ttask[k].ret # None
        /\ MapGet(TRACE_ID_MAP, j) # None
        /\ ttask[j].done > 0

\* the counter field of an id (bits 48..63) and its time field (bits 64
\* and up), as numbers
CounterOf(id) == ToNat({b - MAC_ADDRESS_BITS : b \in {x \in id : x >= MAC_ADDRESS_BITS /\ x < TIME_SHIFT}})
TimeOf(id) == ToNat({b - TIME_SHIFT : b \in {x \in id : x >= TIME_SHIFT}})
\* C29: a gen_id() call that reads a clock value equal to last_time
\* increments the counter, keeps last_time, and returns an id whose
\* counter field differs from that of the previous id; a call that reads a
\* clock value greater than last_time sets last_time to it and the counter
\* to 0.
C29_TimestampTie ==
    [][\A c \in DOMAIN gpc :
           GenCompute(c) =>
               /\ wall = generator.last_time
                      => /\ generator'.counter = (generator.counter + 1) % Pow2(COUNTER_BITS)
                         /\ generator'.last_time = generator.last_time
                         /\ CounterOf(gret'[c]) = generator'.counter
                         /\ CounterOf(gret'[c]) # generator.counter
               /\ wall > generator.last_time
                      => /\ generator'.last_time = wall
                         /\ generator'.counter = 0
                         /\ CounterOf(gret'[c]) = 0]_vars
\* two calls in a row read the same clock value: the ids have the same
\* time field and the counter fields 0 and 1
C29_Witness ==
    \E i \in 1..(Len(returned) - 1) :
        /\ TimeOf(returned[i]) = TimeOf(returned[i + 1])
        /\ CounterOf(returned[i]) = 0
        /\ CounterOf(returned[i + 1]) = 1

\* the MAC field of an id (bits 0..47), as the set of its bits
MacOf(id) == {x \in id : x < MAC_ADDRESS_BITS}
\* C30: the id a gen_id() call returns has the clock reading in bits 64
\* and up, the counter, below 2^16, in bits 48..63 and the MAC address,
\* below 2^48, in bits 0..47; so the three fields do not overlap, ids of
\* different (clock reading, counter) pairs differ, and the id is not 0.
C30_IdLayout ==
    [][\A c \in DOMAIN gpc :
           GenCompute(c) =>
               LET id == gret'[c]
               IN /\ id \subseteq 0..(U128_BITS - 1)
                  /\ TimeOf(id) = wall
                  /\ CounterOf(id) = generator'.counter
                  /\ generator'.counter < Pow2(COUNTER_BITS)
                  /\ MacOf(id) = generator.mac
                  /\ \A b \in generator.mac : b < MAC_ADDRESS_BITS
                  /\ id # {}
                  /\ \A i \in 1..Len(returned) :
                         (TimeOf(returned[i]) # wall
                              \/ CounterOf(returned[i]) # generator'.counter)
                             => returned[i] # id]_vars
\* an id returned at clock reading 2 with counter 1, the MAC address in
\* its low 48 bits
C30_Witness ==
    \E i \in 1..Len(returned) :
        /\ TimeOf(returned[i]) = 2
        /\ CounterOf(returned[i]) = 1
        /\ MacOf(returned[i]) = generator.mac
        /\ MAC_ADDRESS_BITS - 1 \in returned[i]


\* C31: an exit hook delivered for a span that has not been entered since
\* its creation or since its previous exit adds nothing to the span's
\* busy_time: busy_time changes only in the exit of a span that is entered,
\* and then by the time since that enter.
C31_ExitNeedsEnter ==
    [][\A id \in DOMAIN spans \cap DOMAIN spans' :
           spans'[id].storage.busy_time # spans[id].storage.busy_time
               => /\ OnStack(id)
                  /\ spans'[id].storage.busy_time =
                         spans[id].storage.busy_time + (instant - spans[id].pairs.since)]_vars

\* C32: whatever the clock does between gen_id() calls (it may stall or
\* step backwards), every call returns an id that no earlier call has
\* returned.
C32_UniqueWithoutClock ==
    [][\A c \in Callers :
           GenReturn(c) =>
               \A k \in 1..Len(returned) : returned[k] # gret[c]]_vars

\* the trace id of every span that is open before and after a step is the
\* same after it
TraceIdsKept ==
    \A id \in DOMAIN spans \cap DOMAIN spans' :
        spans'[id].storage.trace_id = spans[id].storage.trace_id

\* C33: a u128 field named trace_id supplied to record() on an existing
\* span, to an event, or to the creation of a span that has a parent is
\* kept under the key trace_id of the resulting fields, and changes no
\* span's trace id.
C33_DivertedOnlyAtRoot ==
    [][/\ \A id \in DOMAIN spans : \A values \in RecordCalls :
              (Record(id, values) /\ ExplicitOf(values) # None)
                  => /\ "trace_id" \in DOMAIN spans'[id].storage.fields
                     /\ TraceIdsKept
       /\ \A t \in Threads : \A values \in DivertEvents :
              (Event(t, values) /\ ExplicitOf(values) # None)
                  => /\ "trace_id" \in DOMAIN stdout'[Len(stdout')].fields
                     /\ TraceIdsKept
       /\ \A t \in Threads : \A attrs \in LocalAttrs :
              (/\ NewSpan(t, attrs)
               /\ ExplicitOf(attrs) # None
               /\ SpanStackCurrent(stack[t]) # None)
                  => /\ "trace_id" \in DOMAIN spans'[nspans'].storage.fields
                     /\ TraceIdsKept]_vars

\* C34: emitting an event changes no span's record and leaves TRACE_ID_MAP
\* as it was; creating a span inside an entered span leaves the parent's
\* record (trace_id, span_id, parent_id, busy_time, enter_at, fields) and
\* the table entry of every other handle as they were.
C34_FrameOfEventAndChild ==
    [][/\ (/\ Len(stdout') = Len(stdout) + 1
           /\ stdout'[Len(stdout')].type = "event")
              => /\ spans' = spans
                 /\ closed' = closed
                 /\ TRACE_ID_MAP' = TRACE_ID_MAP
       /\ (/\ nspans' = nspans + 1
           /\ spans'[nspans'].parent # None)
              => LET p == Unwrap(spans'[nspans'].parent)
                 IN /\ p \in DOMAIN spans
                    /\ spans'[p].storage = spans[p].storage
                    /\ \A h \in DOMAIN TRACE_ID_MAP :
                           /\ h \in DOMAIN TRACE_ID_MAP'
                           /\ TRACE_ID_MAP'[h] = TRACE_ID_MAP[h]]_vars
\* a span created inside an entered root span that had been recorded to,
\* both with their table entries, and an event printed with the ids of one
\* of them
C34_Witness ==
    \E id \in DOMAIN spans :
        /\ spans[id].parent # None
        /\ LET p == Unwrap(spans[id].parent)
           IN /\ "status" \in DOMAIN spans[p].storage.fields
              /\ get_trace_id(p) = Some(spans[p].storage.trace_id)
              /\ get_trace_id(id) = Some(spans[p].storage.trace_id)
        /\ \E k \in EventLines : stdout[k].trace_id # None

\* C36: over the polls of one TraceFuture the status moves only from
\* Beginning to PollingInner or to PollingFuture; the stored request is
\* taken exactly once (in the first poll) and the inner service is called
\* exactly once (never twice, and once by the time the future has returned
\* its response); the span is entered in every poll and exited when the
\* poll returns; after a poll returned Pending the task has been woken or
\* the inner future holds its waker, and once the inner future is ready
\* the future completes.
C36_PollingProtocol ==
    /\ [][(tfut # None /\ tfut' # None /\ Unwrap(tfut').status # Unwrap(tfut).status)
             => /\ Unwrap(tfut).status = "Beginning"
                /\ Unwrap(tfut').status \in {"PollingInner", "PollingFuture"}]_vars
    /\ [](tfut # None =>
             LET f == Unwrap(tfut)
             IN /\ f.taken <= 1
                /\ f.exits >= 1 => (f.taken = 1 /\ f.req = None)
                /\ f.calls <= 1
                /\ f.pc = "ready" => f.calls = 1
                /\ f.pc = "polling" <=> (f.span \in DOMAIN spans /\ OnStack(f.span))
                /\ f.polls = f.exits + (IF f.pc = "polling" THEN 1 ELSE 0)
                /\ (f.pc = "idle" /\ f.exits >= 1)
                       => (f.woken \/ (f.inner = "pending" /\ f.waiting)))
    /\ (tfut # None /\ Unwrap(tfut).inner = "ready")
           ~> (tfut # None /\ Unwrap(tfut).pc \in {"ready", "dropped"})

\* C35: when a tracer middleware, axum or actix, with or without body
\* logging, has got a response from the inner service and its future has
\* returned, the request span has the field status with that response's
\* status code, and has it still when it closes.
C35_StatusRecorded ==
    /\ (/\ tfut # None
        /\ Unwrap(tfut).output # None
        /\ Unwrap(tfut).inner = "ready")
           => LET fields == Created[Unwrap(tfut).span].storage.fields
              IN /\ "status" \in DOMAIN fields
                 /\ fields["status"].val = Unwrap(tfut).resp
    /\ (/\ afut # None
        /\ Unwrap(afut).output # None
        /\ Unwrap(afut).inner = "ready"
        /\ Unwrap(afut).result.ok)
           => LET fields == Created[Unwrap(afut).span].storage.fields
              IN /\ "status" \in DOMAIN fields
                 /\ fields["status"].val = Unwrap(afut).result.code

\* what a request's token is at the time `now`, told from the request
\* alone
TokenMissing(auth) == auth = None
TokenMalformed(auth) ==
    /\ auth # None
    /\ \/ Unwrap(auth).bytes # BEARER
       \/ Unwrap(Unwrap(auth).token).form = "garbage"
TokenBadlySigned(auth) ==
    /\ auth # None /\ ~TokenMalformed(auth)
    /\ Unwrap(Unwrap(auth).token).key # OurKey
TokenExpired(auth, now) ==
    /\ auth # None /\ ~TokenMalformed(auth) /\ ~TokenBadlySigned(auth)
    /\ Unwrap(Unwrap(auth).token).expired_at < now
TokenFaulty(auth, now) ==
    \/ TokenMissing(auth) \/ TokenMalformed(auth)
    \/ TokenBadlySigned(auth) \/ TokenExpired(auth, now)

\* C37: once a VerifierFuture, axum or actix, has been polled: in
\* MustSuccess mode a request whose token is missing, malformed, badly
\* signed or expired has been answered by the verifier and the inner
\* service is never called; in AllowFailed mode the inner service has been
\* called exactly once with the request and the verification result
\* (claims or error) attached; and in both modes a request with a valid
\* unexpired token has reached the inner service exactly once with its
\* claims attached.
C37_VerifierModes ==
    (vfut # None /\ Unwrap(vfut).polls >= 1) =>
        LET f == Unwrap(vfut)
            faulty == TokenFaulty(f.orig.auth, f.at)
        IN /\ (f.mode = "MustSuccess" /\ faulty)
                  => /\ f.calls = 0 /\ f.given = None
                     /\ f.output # None
                     /\ Unwrap(f.output).by = "verifier"
           /\ f.mode = "AllowFailed"
                  => /\ f.calls = 1 /\ f.given # None
                     /\ Unwrap(f.given).auth = f.orig.auth
                     /\ Unwrap(f.given).claims # None
                     /\ Unwrap(Unwrap(f.given).claims).ok = ~faulty
           /\ ~faulty
                  => /\ f.calls = 1 /\ f.given # None
                     /\ Unwrap(f.given).auth = f.orig.auth
                     /\ Unwrap(f.given).claims =
                            Some([ok |-> TRUE,
                                  v |-> Unwrap(Unwrap(f.orig.auth).token).claims])
           /\ (f.output # None /\ Unwrap(f.output).by = "inner") => f.calls = 1
\* a token signed with the verifier's key that expired at 1, verified at 2
\* in MustSuccess mode: the verifier has answered
C37_Witness ==
    /\ vfut # None
    /\ Unwrap(vfut).mode = "MustSuccess"
    /\ Unwrap(vfut).polls >= 1
    /\ Unwrap(vfut).at = 2
    /\ Unwrap(vfut).orig.auth # None
    /\ Unwrap(vfut).orig.auth[1].bytes = BEARER
    /\ Unwrap(Unwrap(vfut).orig.auth[1].token).key = OurKey
    /\ Unwrap(Unwrap(vfut).orig.auth[1].token).expired_at = 1
    /\ Unwrap(vfut).output = Some([by |-> "verifier", code |-> UNAUTHORIZED])
====
